---- MODULE Spec2Model ----
(***************************************************************************)
(* A model of the Splunk MCP server: the query safety scanner              *)
(* (security/scanner.ts), the input validators (security/validators.ts),   *)
(* the tool executors (tools/*.ts) and the REST client with its session     *)
(* handling (splunk/client.ts, splunk/auth.ts).                             *)
(*                                                                         *)
(* Texts are sequences of tokens.  A token is a string that the patterns   *)
(* of the scanner treat as a unit: a word ("delete"), a blank (" "), a     *)
(* punctuation mark ("|").  The text a sequence stands for is the          *)
(* concatenation of its tokens; "<fence>" stands for three backticks and    *)
(* "<backtick>" for one.  Concatenation means that                          *)
(* two adjacent word tokens form one word.                                  *)
(***************************************************************************)
EXTENDS Integers, Sequences, FiniteSets, TLC

VARIABLES
    scan,       \* the scanner called directly: its input and what it returned
    etl,        \* the trust scorer called directly: its inputs and its reports
    process,    \* main(): how far the process has got in starting up
    sink,       \* logging/audit.ts called directly: auditBuffer, flushTimer, the logger
    settings,   \* config.ts settings and the credentials the server started with
    workload,   \* the tool calls the agent may send
    now,        \* Date.now(), in poll intervals (500 ms)
    auth,       \* SplunkClient.authResult
    transport,  \* SplunkClient.client: the session its Authorization header carries
    nextKey,    \* the backend: the number of sessions it has issued
    job,        \* the backend: the search job of each invocation
    stack,      \* per invocation: the pending async calls, innermost first
    inv,        \* per invocation: the tool and its arguments
    loc,        \* per invocation: the local variables of the pending calls
    outcome,    \* per invocation: what the tool returned or threw
    log         \* per invocation: the scans made and the requests sent, in order

(***************************************************************************)
(* Tokens and their character classes                                      *)
(***************************************************************************)

\* String.prototype.toLowerCase / the i flag of every pattern, on the tokens
\* that have upper-case letters; every other token is its own lower case.
LowerCase(t) ==
    CASE t = "DELETE" -> "delete"
      [] t = "DeLeTe" -> "delete"
      [] t = "[INST]" -> "[inst]"
      [] t = "INDEX=" -> "index="
      [] OTHER -> t

\* \s
IsSpace(t) == t \in {" ", "\t", "\n"}

\* Tokens made of characters that are neither \w nor \s.
Punctuation ==
    {"|", "\"", "'", "(", ")", "[", "]", "..", "<fence>", ":", ";", "<backtick>", "$",
     "\\", "=", "index=", "<", ">", "&", "*", "-", "+", "@", ".", "/",
     "###", "<system>", "</system>", "[inst]", "http://", "https://",
     "/services/server/control", "/services/admin"}

\* \w: a token of letters, digits and underscores.
IsWord(t) == ~IsSpace(t) /\ LowerCase(t) \notin Punctuation

\* Whether position i of txt holds a word token (no token: no word character).
IsWordAt(txt, i) == i >= 1 /\ i <= Len(txt) /\ IsWord(txt[i])

(***************************************************************************)
(* Pattern elements: the pieces the regular expressions of scanner.ts are  *)
(* made of, at token granularity.                                          *)
(***************************************************************************)
L(s)    == [k |-> "lit", s |-> s]      \* one token among s, case-insensitive
WS      == [k |-> "ws", s |-> {}]      \* \s*
WS1     == [k |-> "ws1", s |-> {}]     \* \s+
ANY     == [k |-> "any", s |-> {}]     \* .*   (no line break)
ANYNL   == [k |-> "anynl", s |-> {}]   \* [\s\S]*?
NOTPIPE == [k |-> "notpipe", s |-> {}] \* [^|]*
WB      == [k |-> "wb", s |-> {}]      \* \b
URLCH1  == [k |-> "urlch1", s |-> {}]  \* [^\s"'\]]+

\* RegExp matching: the elements pat[pi..] match txt from position ti on.
RECURSIVE MatchFrom(_, _, _, _)
MatchFrom(pat, pi, txt, ti) ==
    IF pi > Len(pat) THEN TRUE
    ELSE LET e == pat[pi]
             more == ti <= Len(txt)
         IN CASE e.k = "lit" ->
                   more /\ LowerCase(txt[ti]) \in e.s
                        /\ MatchFrom(pat, pi + 1, txt, ti + 1)
              [] e.k = "ws" ->
                   \/ MatchFrom(pat, pi + 1, txt, ti)
                   \/ more /\ IsSpace(txt[ti]) /\ MatchFrom(pat, pi, txt, ti + 1)
              [] e.k = "ws1" ->
                   more /\ IsSpace(txt[ti])
                        /\ (\/ MatchFrom(pat, pi + 1, txt, ti + 1)
                            \/ MatchFrom(pat, pi, txt, ti + 1))
              [] e.k = "any" ->
                   \/ MatchFrom(pat, pi + 1, txt, ti)
                   \/ more /\ txt[ti] # "\n" /\ MatchFrom(pat, pi, txt, ti + 1)
              [] e.k = "anynl" ->
                   \/ MatchFrom(pat, pi + 1, txt, ti)
                   \/ more /\ MatchFrom(pat, pi, txt, ti + 1)
              [] e.k = "notpipe" ->
                   \/ MatchFrom(pat, pi + 1, txt, ti)
                   \/ more /\ txt[ti] # "|" /\ MatchFrom(pat, pi, txt, ti + 1)
              [] e.k = "wb" ->
                   /\ IsWordAt(txt, ti - 1) # IsWordAt(txt, ti)
                   /\ MatchFrom(pat, pi + 1, txt, ti)
              [] e.k = "urlch1" ->
                   more /\ ~IsSpace(txt[ti]) /\ txt[ti] \notin {"\"", "'", "]"}
                        /\ (\/ MatchFrom(pat, pi + 1, txt, ti + 1)
                            \/ MatchFrom(pat, pi, txt, ti + 1))

\* RegExp.prototype.test of an unanchored pattern given as its alternatives.
Test(alts, txt) ==
    \E a \in 1..Len(alts) : \E ti \in 1..(Len(txt) + 1) :
        MatchFrom(alts[a], 1, txt, ti)

(***************************************************************************)
(* The four pattern tables of scanner.ts                                   *)
(***************************************************************************)
Cmd(word) == << <<L({"|"}), WS, L({word}), WB>> >>   \* /\|\s*word\b/i

READ_ONLY_VIOLATIONS ==
    << [alts |-> Cmd("delete"), severity |-> "critical", description |-> "DELETE command detected"],
       [alts |-> Cmd("collect"), severity |-> "critical", description |-> "COLLECT command detected (writes to index)"],
       [alts |-> Cmd("outputcsv"), severity |-> "critical", description |-> "OUTPUTCSV command detected"],
       [alts |-> Cmd("outputlookup"), severity |-> "critical", description |-> "OUTPUTLOOKUP command detected"],
       [alts |-> Cmd("sendemail"), severity |-> "critical", description |-> "SENDEMAIL command detected"],
       [alts |-> Cmd("sendalert"), severity |-> "critical", description |-> "SENDALERT command detected"],
       [alts |-> Cmd("script"), severity |-> "critical", description |-> "SCRIPT command detected"],
       [alts |-> Cmd("run"), severity |-> "critical", description |-> "RUN command detected"],
       [alts |-> Cmd("runshellscript"), severity |-> "critical", description |-> "RUNSHELLSCRIPT command detected"],
       [alts |-> Cmd("mcollect"), severity |-> "critical", description |-> "MCOLLECT command detected"],
       [alts |-> Cmd("meventcollect"), severity |-> "critical", description |-> "MEVENTCOLLECT command detected"] >>

SPL_INJECTION_PATTERNS ==
    << [alts |-> << <<L({"|"}), WS, L({"eval"}), WS1, ANY, WB, L({"exec"}), WS, L({"("})>> >>,
        severity |-> "critical", description |-> "Command execution via eval"],
       [alts |-> Cmd("python"), severity |-> "critical", description |-> "Python script execution"],
       [alts |-> Cmd("ruby"), severity |-> "critical", description |-> "Ruby script execution"],
       [alts |-> Cmd("perl"), severity |-> "critical", description |-> "Perl script execution"],
       [alts |-> << <<L({"|"}), WS, L({"rest"}), WS1, L({"/services/server/control"})>> >>,
        severity |-> "critical", description |-> "Server control API access"],
       [alts |-> << <<L({"|"}), WS, L({"rest"}), WS1, L({"/services/admin"})>> >>,
        severity |-> "high", description |-> "Admin API access"],
       [alts |-> << <<L({"|"}), WS, L({"rest"}), WS1, ANY, WB, L({"password"}), WB>> >>,
        severity |-> "high", description |-> "Password-related API access"],
       [alts |-> << <<L({"|"}), WS, L({"inputcsv"}), WS1, NOTPIPE, L({".."})>> >>,
        severity |-> "high", description |-> "Path traversal in inputcsv"],
       [alts |-> << <<L({"|"}), WS, L({"inputlookup"}), WS1, NOTPIPE, L({".."})>> >>,
        severity |-> "high", description |-> "Path traversal in inputlookup"],
       [alts |-> << <<L({"<fence>"}), ANYNL, L({"|"})>> >>,
        severity |-> "medium", description |-> "Markdown code block with pipe"],
       [alts |-> << <<L({"["}), WS, L({"|"}), WS, L({"makeresults"})>> >>,
        severity |-> "medium", description |-> "Suspicious subsearch with makeresults"] >>

PROMPT_INJECTION_PATTERNS ==
    << [alts |-> << <<L({"ignore", "override", "skip", "disable"}), ANY,
                      L({"previous", "above", "instruction", "directive"})>> >>,
        severity |-> "high", description |-> "Instruction override attempt"],
       [alts |-> << <<L({"forget", "disregard"}), ANY, L({"rule", "constraint", "limitation"})>> >>,
        severity |-> "high", description |-> "Rule bypass attempt"],
       [alts |-> << <<L({"pretend"}), WS1, L({"you"}), WS1, L({"are"})>>,
                    <<L({"pretend"}), WS1, L({"to"}), WS1, L({"be"})>> >>,
        severity |-> "high", description |-> "Identity manipulation"],
       [alts |-> << <<L({"you"}), WS1, L({"are"}), WS1, L({"now"}), WS1, L({"a", "an"})>> >>,
        severity |-> "high", description |-> "Role reassignment"],
       [alts |-> << <<L({"act"}), WS1, L({"as"}), WS1, L({"if", "though"})>> >>,
        severity |-> "high", description |-> "Behavior modification"],
       [alts |-> << <<L({"system"}), WS, L({":"}), WS, L({"you"}), WS1, L({"are"})>> >>,
        severity |-> "high", description |-> "Fake system prompt"],
       [alts |-> << <<L({"<system>", "</system>"})>> >>,
        severity |-> "high", description |-> "System tag injection"],
       [alts |-> << <<L({"[inst]"})>> >>,
        severity |-> "high", description |-> "Instruction format injection"],
       [alts |-> << <<L({"###"}), WS, L({"system", "instruction", "human", "assistant"})>> >>,
        severity |-> "high", description |-> "Format injection"],
       [alts |-> << <<L({"new"}), WS1, L({"instruction", "instructions"}), WS, L({":"})>> >>,
        severity |-> "high", description |-> "New instructions injection"] >>

DATA_EXFILTRATION_PATTERNS ==
    << [alts |-> Cmd("curl"), severity |-> "medium", description |-> "HTTP request via curl"],
       [alts |-> Cmd("wget"), severity |-> "medium", description |-> "HTTP request via wget"],
       [alts |-> << <<L({"http://", "https://"}), URLCH1>> >>,
        severity |-> "medium", description |-> "External URL reference"],
       [alts |-> << <<L({"|"}), WS, L({"rest"}), WS1, L({"http://", "https://"})>> >>,
        severity |-> "medium", description |-> "External REST call"] >>

(***************************************************************************)
(* scanner.ts: scanQuery, determineRiskLevel, assertQuerySafe,             *)
(* scanParameters                                                          *)
(***************************************************************************)

\* One loop of scanQuery: the issues of one table, in the table's order.
\* param/elem are the prefix scanParameters puts before the description
\* ("" for an issue of scanQuery itself).
IssueRecords(type, fixedSeverity, hit) ==
    [i \in 1..Len(hit) |->
       [type        |-> type,
        severity    |-> IF fixedSeverity = "" THEN hit[i].severity ELSE fixedSeverity,
        description |-> hit[i].description,
        param       |-> "",
        elem        |-> FALSE]]

IssuesOf(table, type, fixedSeverity, query) ==
    IssueRecords(type, fixedSeverity, SelectSeq(table, LAMBDA r : Test(r.alts, query)))

\* A plausible slip: the high test made before the critical one.
determineRiskLevelHighFirst(issues) ==
    IF Len(issues) = 0 THEN "none"
    ELSE IF \E i \in 1..Len(issues) : issues[i].severity = "high" THEN "high"
    ELSE IF \E i \in 1..Len(issues) : issues[i].severity = "critical" THEN "critical"
    ELSE IF \E i \in 1..Len(issues) : issues[i].severity = "medium" THEN "medium"
    ELSE "low"

determineRiskLevel(issues) ==
    IF Len(issues) = 0 THEN "none"
    ELSE IF \E i \in 1..Len(issues) : issues[i].severity = "critical" THEN "critical"
    ELSE IF \E i \in 1..Len(issues) : issues[i].severity = "high" THEN "high"
    ELSE IF \E i \in 1..Len(issues) : issues[i].severity = "medium" THEN "medium"
    ELSE "low"

\* The verdict scanQuery and scanParameters build from the issues found.
Verdict(issues) ==
    [safe |-> Len(issues) = 0, risk |-> determineRiskLevel(issues), issues |-> issues]

scanQuery(query) ==
    Verdict(IssuesOf(READ_ONLY_VIOLATIONS, "read_only_violation", "critical", query)
            \o IssuesOf(SPL_INJECTION_PATTERNS, "injection", "", query)
            \o IssuesOf(PROMPT_INJECTION_PATTERNS, "prompt_injection", "high", query)
            \o IssuesOf(DATA_EXFILTRATION_PATTERNS, "data_exfiltration", "medium", query))

\* The errors of types.ts as values: what the constructors set.  detail is
\* the list of descriptions the message joins (empty when the message has
\* none).
NoError == [name |-> "none", code |-> "NONE", isSecurityError |-> FALSE,
            isRetryable |-> FALSE, detail |-> <<>>]
SecurityError(detail) ==
    [name |-> "SecurityError", code |-> "SECURITY_ERROR", isSecurityError |-> TRUE,
     isRetryable |-> FALSE, detail |-> detail]
InjectionError(detail) ==
    [name |-> "InjectionError", code |-> "INJECTION_DETECTED", isSecurityError |-> TRUE,
     isRetryable |-> FALSE, detail |-> detail]
ReadOnlyViolationError(detail) ==
    [name |-> "ReadOnlyViolationError", code |-> "READ_ONLY_VIOLATION",
     isSecurityError |-> TRUE, isRetryable |-> FALSE, detail |-> detail]
ValidationError(what) ==
    [name |-> "ValidationError", code |-> "VALIDATION_ERROR", isSecurityError |-> FALSE,
     isRetryable |-> FALSE, detail |-> <<what>>]
AuthenticationError(what) ==
    [name |-> "AuthenticationError", code |-> "AUTH_ERROR", isSecurityError |-> FALSE,
     isRetryable |-> FALSE, detail |-> <<what>>]
SplunkAPIError(what, isRetryable) ==
    [name |-> "SplunkAPIError", code |-> "SPLUNK_API_ERROR", isSecurityError |-> FALSE,
     isRetryable |-> isRetryable, detail |-> <<what>>]
\* An error that is no SplunkMCPError: what axios rejects with.  detail is the
\* HTTP status ("401") or "network".
AxiosError(what) ==
    [name |-> "AxiosError", code |-> "NONE", isSecurityError |-> FALSE,
     isRetryable |-> FALSE, detail |-> <<what>>]

Descriptions(issues) == [i \in 1..Len(issues) |-> issues[i].description]

\* A plausible slip: the critical test made before the read-only one.
ChooseErrorCriticalFirst(result, criticalIssues, readOnlyViolations) ==
    IF result.safe THEN NoError
    ELSE IF Len(criticalIssues) > 0 THEN InjectionError(Descriptions(criticalIssues))
    ELSE IF Len(readOnlyViolations) > 0
         THEN ReadOnlyViolationError(Descriptions(readOnlyViolations))
    ELSE SecurityError(Descriptions(result.issues))

\* assertQuerySafe, from the scan result on: what it throws (NoError: it
\* returns).
ChooseError(result, criticalIssues, readOnlyViolations) ==
    IF result.safe THEN NoError
    ELSE IF Len(readOnlyViolations) > 0
         THEN ReadOnlyViolationError(Descriptions(readOnlyViolations))
    ELSE IF Len(criticalIssues) > 0 THEN InjectionError(Descriptions(criticalIssues))
    ELSE SecurityError(Descriptions(result.issues))

ThrowFor(result) ==
    ChooseError(result,
                SelectSeq(result.issues, LAMBDA i : i.severity = "critical"),
                SelectSeq(result.issues, LAMBDA i : i.type = "read_only_violation"))

\* A plausible slip: the scan result ignored.
assertQuerySafeNever(query) == NoError

assertQuerySafe(query) == ThrowFor(scanQuery(query))

\* A tool's parameters: a sequence of [key, kind, items].  kind "string": items
\* holds the one text; kind "array": items holds the elements that are
\* strings; kind "other" (a number, a boolean): items is empty.
\* The issues of one scanned value, their descriptions prefixed with the
\* parameter's name (and index, for an array element).
Prefixed(param, issues) ==
    [i \in 1..Len(issues) |->
       [issues[i] EXCEPT !.param = param.key, !.elem = (param.kind = "array")]]

RECURSIVE ItemIssues(_, _)
ItemIssues(param, j) ==
    IF j = 0 THEN <<>>
    ELSE ItemIssues(param, j - 1) \o Prefixed(param, scanQuery(param.items[j]).issues)

RECURSIVE ParamIssues(_, _)
ParamIssues(params, n) ==
    IF n = 0 THEN <<>>
    ELSE ParamIssues(params, n - 1)
         \o (IF params[n].kind \in {"string", "array"}
             THEN ItemIssues(params[n], Len(params[n].items)) ELSE <<>>)

scanParameters(params) == Verdict(ParamIssues(params, Len(params)))

(***************************************************************************)
(* validators.ts                                                           *)
(***************************************************************************)

\* The number of characters of a text.
RECURSIVE CharLen(_)
CharLen(txt) == IF txt = <<>> THEN 0 ELSE Len(Head(txt)) + CharLen(Tail(txt))

\* \d+ : a token of digits.
IsDigits(t) ==
    t \in {"0", "1", "2", "5", "10", "24", "01", "00", "2024", "1700000000"}

\* [smhdwMy]
TimeUnits == {"s", "m", "h", "d", "w", "M", "y"}

\* Every character of the text is in [a-zA-Z0-9_] or is one of extra.
AllCharsIn(txt, extra) ==
    \A i \in 1..Len(txt) : IsWord(txt[i]) \/ txt[i] \in extra

\* /^[a-zA-Z0-9_\-\.]+$/
isValidIdentifier(value) ==
    /\ value # <<>>
    /\ AllCharsIn(value, {"-", ".", ".."})

\* /^[a-zA-Z0-9_\-\.:]+$/ and at most 256 characters
isValidEventId(value) ==
    /\ value # <<>>
    /\ AllCharsIn(value, {"-", ".", "..", ":"})
    /\ CharLen(value) <= 256

\* /^\d{4}-\d{2}-\d{2}(T\d{2}:\d{2}:\d{2}(Z|[+-]\d{2}:\d{2})?)?$/
IsIsoDate(value) ==
    LET D(i, n) == IsDigits(value[i]) /\ Len(value[i]) = n
        date == /\ Len(value) >= 5
                /\ D(1, 4) /\ value[2] = "-" /\ D(3, 2) /\ value[4] = "-" /\ D(5, 2)
        clock == /\ Len(value) >= 11
                 /\ value[6] = "T" /\ D(7, 2) /\ value[8] = ":" /\ D(9, 2)
                 /\ value[10] = ":" /\ D(11, 2)
        zone == \/ Len(value) = 12 /\ value[12] = "Z"
                \/ /\ Len(value) = 15 /\ value[12] \in {"+", "-"}
                   /\ D(13, 2) /\ value[14] = ":" /\ D(15, 2)
    IN date /\ (Len(value) = 5 \/ (clock /\ (Len(value) = 11 \/ zone)))

isValidTimeSpec(value) ==
    IF value = <<>> THEN FALSE
    \* relative time: /^-\d+[smhdwMy]$/
    ELSE IF Len(value) = 3 /\ value[1] = "-" /\ IsDigits(value[2])
                           /\ value[3] \in TimeUnits THEN TRUE
    \* snap time: /^@[smhdwMy]\d*$/
    ELSE IF /\ Len(value) \in {2, 3} /\ value[1] = "@" /\ value[2] \in TimeUnits
            /\ (Len(value) = 3 => IsDigits(value[3])) THEN TRUE
    ELSE IF value = <<"now">> THEN TRUE
    ELSE IF IsIsoDate(value) THEN TRUE
    \* epoch time: /^\d{10,13}$/
    ELSE IF Len(value) = 1 /\ IsDigits(value[1])
                           /\ Len(value[1]) >= 10 /\ Len(value[1]) <= 13 THEN TRUE
    ELSE FALSE

\* The characters escapeSPLString puts a backslash before.
SPLSpecial == {"\\", "\"", "'", "|", ";", "<backtick>", "$", "[", "]"}

\* escapeSPLString on one token.  A token of several characters that holds
\* special ones falls apart into its characters.
EscapeToken(t) ==
    CASE t \in SPLSpecial -> <<"\\", t>>
      [] t = "[INST]" -> <<"\\", "[", "INST", "\\", "]">>
      [] t = "<fence>" -> <<"\\", "<backtick>", "\\", "<backtick>", "\\", "<backtick>">>
      [] OTHER -> <<t>>

RECURSIVE escapeSPLString(_)
escapeSPLString(value) ==
    IF value = <<>> THEN <<>>
    ELSE EscapeToken(Head(value)) \o escapeSPLString(Tail(value))

\* /^[a-zA-Z_][a-zA-Z0-9_]*$/ and at most 100 characters
isValidFieldName(value) ==
    /\ value # <<>>
    /\ AllCharsIn(value, {})
    /\ ~IsDigits(value[1])
    /\ CharLen(value) <= 100

\* /^[a-zA-Z0-9][a-zA-Z0-9\-\.]*[a-zA-Z0-9]$/ and at most 253 characters
isValidHostname(value) ==
    /\ value # <<>>
    /\ \A i \in 1..Len(value) : (IsWord(value[i]) /\ value[i] # "_")
                                \/ value[i] \in {"-", ".", ".."}
    /\ IsWord(value[1]) /\ IsWord(value[Len(value)])
    /\ CharLen(value) >= 2
    /\ CharLen(value) <= 253

\* no "..", none of < > | ; &, at most 1024 characters
isValidSourcePath(value) ==
    /\ value # <<>>
    /\ \A i \in 1..Len(value) :
          /\ value[i] # ".."
          /\ ~(value[i] = "." /\ i < Len(value) /\ value[i + 1] = ".")
          /\ value[i] \notin {"<", ">", "|", ";", "&", "<system>", "</system>"}
    /\ CharLen(value) <= 1024

(***************************************************************************)
(* The trust scorer (ETLMiddleware).  A score is an exact fraction: the    *)
(* dimensions of a result of n events are counted in units of 1/(100 n),   *)
(* the composite score in units of 1/(10000 n), and a threshold in         *)
(* hundredths, so that every comparison of the code is decided exactly.    *)
(* Times are read in hours.  An event carries the hour its time text       *)
(* denotes (stamp) and the number of hours by which the reading moves when *)
(* computeFreshness cuts the text at its first '.', which drops a zone     *)
(* suffix written after the fraction (cutShift, 0 when nothing is lost).   *)
(***************************************************************************)
DefaultProceed == 70    \* TRUST_THRESHOLD_PROCEED, in hundredths
DefaultCaution == 40    \* TRUST_THRESHOLD_CAUTION, in hundredths
DefaultThresholds == [proceed |-> DefaultProceed, caution |-> DefaultCaution]
InvalidDate == -1000    \* parseISO of a text that is no date
RecentHours == 24
MsPerTick == 500

Blank(text) == \A i \in 1..Len(text) : text[i] = " "

\* Object.keys(event.fields).sort().join(',')
fieldKey(event) == DOMAIN event.fields

\* The denominator of the dimension scores of a result.
Events(result) == IF Len(result.events) = 0 THEN 1 ELSE Len(result.events)
One(result) == 100 * Events(result)
Tenth(result) == 10 * Events(result)

Min(a, b) == IF a < b THEN a ELSE b
Max(a, b) == IF a > b THEN a ELSE b
Clamp(result, score) == Max(0, Min(One(result), score))

Succeeded(result) == result.searchId # "" /\ result.error = ""

computeAuthority(result) ==
    Min(One(result),
        8 * Tenth(result)
          + (IF Succeeded(result) THEN Tenth(result) ELSE 0)
          + (IF result.aggregations THEN Tenth(result) ELSE 0))

\* parseISO of the time text cut at its first '.', and differenceInHours.
ageHours(event, at) ==
    IF event.stamp = InvalidDate THEN InvalidDate
    ELSE at - (event.stamp + event.cutShift)

isRecent(event, at) ==
    /\ ageHours(event, at) # InvalidDate
    /\ ageHours(event, at) <= RecentHours

computeFreshness(result, at) ==
    IF Len(result.events) = 0 THEN One(result) \div 2
    ELSE 100 * Cardinality({i \in 1..Len(result.events) : isRecent(result.events[i], at)})

commonMissing(event) ==
    {f \in {"source", "host", "sourcetype"} : event[f] = <<>>}

requiredMissing(event) ==
    {f \in {"time", "raw"} : event[f] = <<>>}

eventComplete(event) ==
    /\ requiredMissing(event) = {}
    /\ Cardinality(commonMissing(event)) <= 1

\* The names computeCompletenessWithDetails collects, without their order.
eventMissing(event) ==
    requiredMissing(event)
      \cup (IF Cardinality(commonMissing(event)) > 1 THEN commonMissing(event) ELSE {})

computeCompletenessWithDetails(result) ==
    [score |-> 100 * Cardinality({i \in 1..Len(result.events) :
                                      eventComplete(result.events[i])}),
     missingFields |-> UNION {eventMissing(result.events[i]) :
                                  i \in 1..Len(result.events)}]

fieldCounts(result) ==
    [k \in {fieldKey(result.events[i]) : i \in 1..Len(result.events)} |->
        Cardinality({i \in 1..Len(result.events) : fieldKey(result.events[i]) = k})]

\* maxVariance < 0.8, for the greatest count of one field shape.
Scattered(counts, n) ==
    /\ Cardinality(DOMAIN counts) > 1
    /\ \A k \in DOMAIN counts : 5 * counts[k] < 4 * n

\* A plausible slip: events of scattered shapes leave no coherence at all.
computeCoherenceNoneWhenScattered(result) ==
    IF Len(result.events) = 0 THEN One(result) \div 2
    ELSE IF Scattered(fieldCounts(result), Len(result.events)) THEN 0
    ELSE Clamp(result, One(result) - (IF result.truncated THEN Tenth(result) ELSE 0))

computeCoherence(result) ==
    IF Len(result.events) = 0 THEN One(result) \div 2
    ELSE Clamp(result,
               One(result)
                 - (IF Scattered(fieldCounts(result), Len(result.events))
                    THEN 2 * Tenth(result) ELSE 0)
                 - (IF result.truncated THEN Tenth(result) ELSE 0))

invalidCount(result) ==
    Cardinality({i \in 1..Len(result.events) : Blank(result.events[i].raw)})

computeIntegrity(result) ==
    Clamp(result,
          One(result)
            - (IF result.error # "" THEN 5 * Tenth(result) ELSE 0)
            - 30 * invalidCount(result)
            + (IF /\ result.searchId # ""
                  /\ result.executionTimeMs > 0
                  /\ result.executionTimeMs < 100
               THEN 5 * Events(result) ELSE 0))

computeTrackRecord(result) ==
    Min(One(result),
        7 * Tenth(result)
          + (IF Succeeded(result) THEN 2 * Tenth(result) ELSE 0)
          + (IF result.executionTimeMs > 0 /\ result.executionTimeMs < 5000
             THEN Tenth(result) ELSE 0))

computeDimensions(result, at) ==
    [authority |-> computeAuthority(result),
     freshness |-> computeFreshness(result, at),
     trackRecord |-> computeTrackRecord(result),
     completeness |-> computeCompletenessWithDetails(result).score,
     coherence |-> computeCoherence(result),
     integrity |-> computeIntegrity(result)]

\* The weighted sum, in units of 1/(10000 n); corroboration is undefined.
compositeScore(d) ==
    20 * d.authority + 20 * d.freshness + 20 * d.completeness
      + 15 * d.coherence + 15 * d.integrity + 10 * d.trackRecord

\* A plausible slip: the caution threshold is tested first.
determineThresholdDecisionCautionFirst(score, unit, thresholds) ==
    IF score >= thresholds.caution * unit THEN "CAUTION"
    ELSE IF score >= thresholds.proceed * unit THEN "PROCEED"
    ELSE "DONT_RELY"

\* score is counted in units of 1/(100 unit), thresholds in hundredths.
determineThresholdDecision(score, unit, thresholds) ==
    IF score >= thresholds.proceed * unit THEN "PROCEED"
    ELSE IF score >= thresholds.caution * unit THEN "CAUTION"
    ELSE "DONT_RELY"

\* Number.toFixed(2) of score / (100 unit): the nearest count of hundredths.
toFixed2(score, unit) == (2 * score + unit) \div (2 * unit)

When(cond, text) == IF cond THEN <<text>> ELSE <<>>

\* A warning: its wording and the values written into it.
Warning(text, a, b, detail) == [text |-> text, a |-> a, b |-> b, detail |-> detail]

generateFactors(result, d, missingFields) ==
    [factors |->
        When(d.authority >= 8 * Tenth(result), "High authority data source (Splunk)")
        \o When(d.freshness >= 7 * Tenth(result), "Recent data (within 24 hours)")
        \o When(result.aggregations, "Aggregations available for analysis")
        \o When(result.error = "", "Query executed successfully")
        \o When(result.executionTimeMs < 2000, "Fast query execution"),
     warnings |->
        When(d.completeness < 7 * Tenth(result),
             Warning("Low completeness", toFixed2(d.completeness, Events(result)), 0, ""))
        \o When(d.freshness < 5 * Tenth(result),
                Warning("Stale data", toFixed2(d.freshness, Events(result)), 0, ""))
        \o When(result.truncated,
                Warning("Results truncated", result.returnedEvents, result.totalEvents, ""))
        \o When(result.error # "", Warning("Query error", 0, 0, result.error))
        \o When(d.coherence < 7 * Tenth(result), Warning("Low coherence", 0, 0, ""))
        \o When(result.executionTimeMs > 10000,
                Warning("Slow query execution", result.executionTimeMs, 0, "")),
     missingFields |-> missingFields]

FirstOf(n, s) == SubSeq(s, 1, Min(n, Len(s)))

generateDirective(decision, score, unit, factors) ==
    [head |-> decision,
     score |-> toFixed2(score, unit),
     concerns |-> IF decision = "PROCEED" THEN <<>> ELSE FirstOf(3, factors.warnings),
     positive |-> FirstOf(2, factors.factors)]

\* The report of computeTrust for dimensions d computed at time at.  The
\* schemas the report is parsed with accept every score from 0 to 1, and the
\* scores counted here never leave that range.
TrustMetadata(result, thresholds, at, d, missingFields) ==
    [compositeScore |-> compositeScore(d),
     unit |-> 100 * Events(result),
     thresholdDecision |->
        determineThresholdDecision(compositeScore(d), 100 * Events(result), thresholds),
     dimensions |-> d,
     factors |-> generateFactors(result, d, missingFields),
     agentDirective |->
        generateDirective(
            determineThresholdDecision(compositeScore(d), 100 * Events(result), thresholds),
            compositeScore(d), 100 * Events(result),
            generateFactors(result, d, missingFields)),
     computedAt |-> at]

computeTrust(result, thresholds, at) ==
    TrustMetadata(result, thresholds, at, computeDimensions(result, at),
                  computeCompletenessWithDetails(result).missingFields)

(***************************************************************************)
(* Bounds of the model.  Time is counted in poll intervals of 500 ms, so a  *)
(* timeout of t seconds is 2t ticks.  The session window of getSessionKey   *)
(* (one hour, 7200 ticks) is scaled down to SessionWindow ticks.            *)
(***************************************************************************)
MaxConcurrent == 2      \* invocations in flight at once
MaxTime == 4            \* the clock stops here
SessionWindow == 2      \* ticks a session is valid for
MaxSearchTimeout == 1   \* settings.searchTimeout is drawn from 0..this (seconds)
MaxResultCount == 2     \* the backend's resultCount is drawn from 0..this
MaxRecords == 2         \* records in one results response

Procs == 1..MaxConcurrent

\* const pollInterval = 500, in ticks.
PollTicks == 1
\* timeout * 1000 ms, in ticks.
TimeoutTicks(timeout) == 2 * timeout

NoExpiry == -1
\* A client that was never built (this.client === null).
NullClient == [key |-> -1, exp |-> NoExpiry]
NoAuth == [mode |-> "none", key |-> -1, exp |-> NoExpiry]
TokenKey == 0

(***************************************************************************)
(* Values                                                                  *)
(***************************************************************************)
Absent == <<"<absent>">>      \* an optional string parameter left out
AbsentNumber == -1            \* an optional number parameter left out

NoStatus == [isDone |-> FALSE, isFailed |-> FALSE, resultCount |-> 0, messages |-> <<>>]
NoJob == [state |-> "none", resultCount |-> 0, messages |-> <<>>]

NoResult == [events |-> <<>>, totalCount |-> 0, searchId |-> 0,
             executionTimeMs |-> 0, truncated |-> FALSE]

NoResponse == [kind |-> "none", trust |-> <<>>, error |-> [code |-> "", message |-> <<>>]]

\* What is known of an invocation: what the tool returned or threw, the audit
\* events the handler recorded and what the handler answered.
NoOutcome == [status |-> "none", error |-> NoError, result |-> NoResult,
              returnedCount |-> 0, hasEvents |-> FALSE, note |-> "",
              audit |-> <<>>, response |-> NoResponse]

NoLocals ==
    [query |-> <<>>, earliestTime |-> <<>>, latestTime |-> <<>>, maxResults |-> 0,
     timeout |-> 0, gcClient |-> NullClient, client |-> NullClient, startTime |-> 0,
     sid |-> 0, wfjClient |-> NullClient, wfjStart |-> 0, sleepStart |-> 0,
     status |-> NoStatus, events |-> <<>>, executionTimeMs |-> 0, result |-> NoResult,
     kept |-> <<>>]

\* A log entry.
LogEntry(ev, what, q, ok, key, stale) ==
    [ev |-> ev, what |-> what, q |-> q, ok |-> ok, key |-> key, stale |-> stale,
     earliest |-> <<>>, latest |-> <<>>]
ScanEntry(q, ok) == LogEntry("scan", "assertQuerySafe", q, ok, -1, FALSE)
\* A request sent through client c.  stale: c carries a session whose window
\* had elapsed when the request was sent.
ReqEntry(what, q, c) ==
    LogEntry("req", what, q, TRUE, c.key, c.exp # NoExpiry /\ c.exp < now)
\* A request that submits a job, with the time bounds it sends (<<>> for a
\* bound it does not send).
JobEntry(what, q, c, earliest, latest) ==
    [ReqEntry(what, q, c) EXCEPT !.earliest = earliest, !.latest = latest]
\* if (earliestTime): the optional bound was given and is not empty.
Sent(bound) == bound # Absent /\ bound # <<>>
FailEntry(what, code) == LogEntry("fail", what, <<code>>, FALSE, -1, FALSE)
\* The flags of a job status that are set.
Flags(status) ==
    (IF status.isDone THEN <<"isDone">> ELSE <<>>)
        \o (IF status.isFailed THEN <<"isFailed">> ELSE <<>>)
\* A job status received from the backend.
StatusEntry(status) == LogEntry("resp", "status", Flags(status), TRUE, -1, FALSE)

(***************************************************************************)
(* Control                                                                 *)
(***************************************************************************)
Top(p) == IF stack[p] = <<>> THEN "idle" ELSE Head(stack[p])

\* Where an invocation waits for the network or for a timer.
WaitLabels == {"login_wait", "create_wait", "dispatch_wait", "status_wait",
               "results_wait", "cancel_wait", "wfj_sleep"}

\* Node runs one continuation at a time, to its next await of I/O: a response
\* or a timer is handled only when no invocation is running.
Running(p) == Top(p) \notin WaitLabels \cup {"idle"}
NoneRunning == \A p \in Procs : ~Running(p)

Goto(p, label) == stack' = [stack EXCEPT ![p] = <<label>> \o Tail(@)]
Call(p, callee, ret) == stack' = [stack EXCEPT ![p] = <<callee, ret>> \o Tail(@)]
Return(p) == stack' = [stack EXCEPT ![p] = Tail(@)]
Logged(p, entry) == log' = [log EXCEPT ![p] = Append(@, entry)]
Locals(p, l) == loc' = [loc EXCEPT ![p] = l]

(***************************************************************************)
(* The CallTool handler of server.ts around executeTool: the audit events  *)
(* it records, the trust report it adds to a result, and the McpError it   *)
(* throws to the agent for an error of the tool.                           *)
(***************************************************************************)
ToolNames ==
    {"splunk_search", "splunk_get_events", "splunk_correlate", "splunk_get_context",
     "splunk_list_indexes", "splunk_list_saved_searches", "splunk_run_saved_search",
     "splunk_list_alerts"}

toolExists(name) == name \in ToolNames

\* An error the handler itself throws.
McpErrorThrown(code, what) ==
    [name |-> "McpError", code |-> code, isSecurityError |-> FALSE,
     isRetryable |-> FALSE, detail |-> <<what>>]

isSplunkMCPError(err) ==
    err.name \in {"SecurityError", "InjectionError", "ReadOnlyViolationError",
                  "ValidationError", "AuthenticationError", "SplunkAPIError"}

\* error instanceof SecurityError
isSecurityError(err) ==
    err.name \in {"SecurityError", "InjectionError", "ReadOnlyViolationError"}

\* What the agent receives for an error: an McpError has a code and a message.
McpError(code, message) == [code |-> code, message |-> message]

\* The end of the catch block: the conversion to an McpError.
toMcpError(err) ==
    IF err.name = "McpError" THEN McpError(err.code, err.detail)
    ELSE IF isSplunkMCPError(err)
         THEN McpError(IF err.isSecurityError THEN "InvalidRequest" ELSE "InternalError",
                       err.detail)
    ELSE McpError("InternalError", err.detail)

NoContext == "<absent>"

\* An audit event: its type, the tool, the code of the error it carries and
\* the securityContext it carries (NoContext and no issues when it has none).
AuditEvent(type, toolName, code, riskLevel, issues) ==
    [type |-> type, toolName |-> toolName, code |-> code,
     riskLevel |-> riskLevel, issues |-> issues]

auditToolCall(toolName) == AuditEvent("TOOL_CALLED", toolName, "", NoContext, <<>>)

auditToolSuccess(toolName) == AuditEvent("TOOL_SUCCESS", toolName, "", NoContext, <<>>)

auditToolError(toolName, err, security) ==
    AuditEvent(IF security THEN "SECURITY_VIOLATION" ELSE "TOOL_ERROR", toolName,
               IF err.name = "AxiosError" THEN "UNKNOWN" ELSE err.code, NoContext, <<>>)

auditSecurityViolation(toolName, riskLevel, issues) ==
    AuditEvent("SECURITY_VIOLATION", toolName, "", riskLevel, issues)

\* A plausible slip: nothing is recorded.
logAuditEventDropped(enabled, events) == <<>>

\* AuditLogger and logAuditEvent: events are kept when settings.enableAuditLog.
logAuditEvent(enabled, events) == IF enabled THEN events ELSE <<>>

\* The catch block: logToolError, and for a SecurityError of a call that has a
\* query argument logSecurityViolation with a new scan of that argument.
SecurityViolationOf(r, result) ==
    <<auditSecurityViolation(r.tool, result.risk, Descriptions(result.issues))>>

CatchEvents(r, err) ==
    <<auditToolError(r.tool, err, isSecurityError(err))>>
    \o (IF isSecurityError(err) /\ r.args.query # Absent /\ r.args.query # <<>>
        THEN SecurityViolationOf(r, scanQuery(r.args.query))
        ELSE <<>>)

TrustableTools ==
    {"splunk_search", "splunk_get_events", "splunk_correlate", "splunk_get_context",
     "splunk_run_saved_search"}

\* hasEvents: the result of the tool has a key named events.
shouldComputeTrust(toolName, hasEvents) == toolName \in TrustableTools /\ hasEvents

TicksPerHour == (3600 * 1000) \div MsPerTick

\* The result in SplunkSearchResult format, scored by the ETLMiddleware of the
\* server; <<>> stands for undefined.
computeTrustForResult(result, thresholds, ticks) ==
    <<computeTrust([events |-> result.events,
                    totalEvents |-> IF result.totalCount # 0 THEN result.totalCount
                                    ELSE Len(result.events),
                    returnedEvents |-> Len(result.events),
                    truncated |-> result.truncated,
                    searchId |-> IF result.searchId # 0 THEN "sid" ELSE "unknown",
                    executionTimeMs |-> result.executionTimeMs * MsPerTick,
                    error |-> "",
                    aggregations |-> FALSE],
                   thresholds, ticks \div TicksPerHour)>>

\* What the handler leaves of an invocation that threw err: the audit events
\* and the McpError.
Caught(r, err, audit, enabled) ==
    [NoOutcome EXCEPT
        !.status = "error", !.error = err,
        !.audit = audit \o logAuditEvent(enabled, CatchEvents(r, err)),
        !.response = [kind |-> "error", trust |-> <<>>, error |-> toMcpError(err)]]

\* An error nothing catches before the handler of server.ts: the invocation
\* ends with it, in the catch block of the handler.
Throw(p, err) ==
    /\ stack' = [stack EXCEPT ![p] = <<>>]
    /\ outcome' = [outcome EXCEPT ![p] =
          Caught(inv[p], err, outcome[p].audit, settings.enableAuditLog)]

clientVars == <<auth, transport, nextKey>>
envVars == <<scan, etl, process, sink, settings, workload>>

\* The responses an HTTP request can fail with.
HttpFailures == {"401", "500"}

(***************************************************************************)
(* splunk/client.ts and splunk/auth.ts                                     *)
(***************************************************************************)

\* A plausible slip: the client built at the first login and kept.
createAuthenticatedClientOnce(authResult) ==
    IF transport = NullClient THEN [key |-> authResult.key, exp |-> authResult.exp]
    ELSE transport

\* createAuthenticatedClient: an Axios instance whose Authorization header
\* carries the token or the session key of authResult.
createAuthenticatedClient(authResult) ==
    [key |-> authResult.key, exp |-> authResult.exp]

\* getClient, first test: this.client or this.authResult missing.
GetClient(p) ==
    /\ Top(p) = "gc"
    /\ IF transport = NullClient \/ auth = NoAuth
       THEN Call(p, "init_start", "gc_expiry")
       ELSE Goto(p, "gc_expiry")
    /\ UNCHANGED <<now, clientVars, job, inv, loc, outcome, log, envVars>>

\* this.authResult?.expiresAt && this.authResult.expiresAt < new Date()
SessionExpired(a) == a.exp # NoExpiry /\ a.exp < now

\* getClient, second test: the session has expired.
GetClientExpiry(p) ==
    /\ Top(p) = "gc_expiry"
    /\ IF SessionExpired(auth)
       THEN Call(p, "init_start", "gc_ret")
       ELSE Goto(p, "gc_ret")
    /\ UNCHANGED <<now, clientVars, job, inv, loc, outcome, log, envVars>>

\* getClient: return this.client
GetClientReturn(p) ==
    /\ Top(p) = "gc_ret"
    /\ Return(p)
    /\ Locals(p, [loc[p] EXCEPT !.gcClient = transport])
    /\ UNCHANGED <<now, clientVars, job, inv, outcome, log, envVars>>

\* initialize -> authenticate: a token is used as it is; a username and
\* password send the login request of getSessionKey.
Initialize(p) ==
    /\ Top(p) = "init_start"
    /\ IF settings.credentials = "token"
       THEN /\ auth' = [mode |-> "token", key |-> TokenKey, exp |-> NoExpiry]
            /\ transport' = createAuthenticatedClient(auth')
            /\ Return(p)
            /\ UNCHANGED log
       ELSE /\ Goto(p, "login_wait")
            /\ Logged(p, ReqEntry("login", <<>>, NullClient))
            /\ UNCHANGED <<auth, transport>>
    /\ UNCHANGED <<now, nextKey, job, inv, loc, outcome, envVars>>

\* The login response.  With a session key, initialize stores the new
\* authResult and the client built from it; without, or on an HTTP error,
\* getSessionKey throws an AuthenticationError.
LoginResponse(p) ==
    /\ NoneRunning
    /\ Top(p) = "login_wait"
    /\ \E r \in {"ok", "nokey"} \cup HttpFailures :
         IF r = "ok"
         THEN /\ nextKey' = nextKey + 1
              /\ auth' = [mode |-> "session", key |-> nextKey + 1,
                          exp |-> now + SessionWindow]
              /\ transport' = createAuthenticatedClient(auth')
              /\ Return(p)
              /\ UNCHANGED <<outcome, log>>
         ELSE /\ Throw(p, AuthenticationError(r))
              /\ Logged(p, FailEntry("login", r))
              /\ UNCHANGED <<auth, transport, nextKey>>
    /\ UNCHANGED <<now, job, inv, loc, envVars>>

\* search: const startTime = Date.now(); const client = await this.getClient()
SearchStart(p) ==
    /\ Top(p) = "search_start"
    /\ Call(p, "gc", "search_create")
    /\ Locals(p, [loc[p] EXCEPT !.startTime = now])
    /\ UNCHANGED <<now, clientVars, job, inv, outcome, log, envVars>>

\* search: the job creation request, sent through the client just obtained.
SearchCreate(p) ==
    /\ Top(p) = "search_create"
    /\ Goto(p, "create_wait")
    /\ Locals(p, [loc[p] EXCEPT !.client = loc[p].gcClient,
                                !.timeout = settings.searchTimeout])
    /\ Logged(p, JobEntry("create", loc[p].query, loc[p].gcClient,
                          loc[p].earliestTime, loc[p].latestTime))
    /\ UNCHANGED <<now, clientVars, job, inv, outcome, envVars>>

\* The answer to a job creation or a saved-search dispatch: a sid, no sid, or
\* an HTTP error.  With a sid, waitForJob is called.
JobCreated(p, wait, what, ret) ==
    /\ NoneRunning
    /\ Top(p) = wait
    /\ \E r \in {"ok", "nosid"} \cup HttpFailures :
         CASE r = "ok" ->
                /\ job' = [job EXCEPT ![p] = [NoJob EXCEPT !.state = "running"]]
                /\ Locals(p, [loc[p] EXCEPT !.sid = p])
                /\ Call(p, "wfj_start", ret)
                /\ UNCHANGED <<outcome, log>>
           [] r = "nosid" ->
                /\ Throw(p, SplunkAPIError("No search ID returned", FALSE))
                /\ UNCHANGED <<job, loc, log>>
           [] OTHER ->
                /\ Throw(p, AxiosError(r))
                /\ Logged(p, FailEntry(what, r))
                /\ UNCHANGED <<job, loc>>
    /\ UNCHANGED <<now, clientVars, inv, envVars>>

CreateResponse(p) == JobCreated(p, "create_wait", "create", "search_results")

\* waitForJob: const client = await this.getClient()
WaitForJobStart(p) ==
    /\ Top(p) = "wfj_start"
    /\ Call(p, "gc", "wfj_init")
    /\ UNCHANGED <<now, clientVars, job, inv, loc, outcome, log, envVars>>

\* waitForJob: const startTime = Date.now()
WaitForJobInit(p) ==
    /\ Top(p) = "wfj_init"
    /\ Goto(p, "wfj_loop")
    /\ Locals(p, [loc[p] EXCEPT !.wfjClient = loc[p].gcClient, !.wfjStart = now])
    /\ UNCHANGED <<now, clientVars, job, inv, outcome, log, envVars>>

\* A plausible slip: a loop that gives up at once.
TimedOutAtOnce(p) == TRUE

\* A plausible slip: a loop that never gives up.
TimedOutNever(p) == FALSE

\* The loop test of waitForJob fails: Date.now() - startTime >= timeout * 1000.
TimedOut(p) == ~(now - loc[p].wfjStart < TimeoutTicks(loc[p].timeout))

\* waitForJob: the loop test.  Inside the loop the status is polled; past the
\* timeout the cancel request is sent, through the client waitForJob obtained
\* when it started.
WaitForJobLoop(p) ==
    /\ Top(p) = "wfj_loop"
    /\ IF ~TimedOut(p)
       THEN /\ Call(p, "gjs_start", "wfj_check")
            /\ UNCHANGED log
       ELSE /\ Goto(p, "cancel_wait")
            /\ Logged(p, ReqEntry("cancel", <<>>, loc[p].wfjClient))
    /\ UNCHANGED <<now, clientVars, job, inv, loc, outcome, envVars>>

\* Array.prototype.join on texts of tokens.
RECURSIVE Join(_, _)
Join(parts, sep) ==
    IF parts = <<>> THEN <<>>
    ELSE IF Len(parts) = 1 THEN parts[1]
    ELSE parts[1] \o sep \o Join(Tail(parts), sep)

\* The ERROR and FATAL messages of a status, in order.
ErrorTexts(messages) ==
    LET bad == SelectSeq(messages, LAMBDA m : m.type \in {"ERROR", "FATAL"})
    IN [i \in 1..Len(bad) |-> bad[i].text]

\* A plausible slip: the messages of every type joined.
errorMsgOfAllTypes(messages) ==
    Join([i \in 1..Len(messages) |->
            IF messages[i].text = "" THEN <<>> ELSE <<messages[i].text>>], <<"; ">>)

\* waitForJob: errorMsg, the texts of the ERROR and FATAL messages joined
\* with "; " (an empty text adds no character).
errorMsg(messages) ==
    LET texts == ErrorTexts(messages)
    IN Join([i \in 1..Len(texts) |-> IF texts[i] = "" THEN <<>> ELSE <<texts[i]>>],
            <<"; ">>)

\* new SplunkAPIError('Search job failed: ' + (errorMsg || 'Unknown error'))
JobFailedError(joined) ==
    [SplunkAPIError("Search job failed", FALSE)
       EXCEPT !.detail = <<"Search job failed">>
                \o (IF joined = <<>> THEN <<"Unknown error">> ELSE joined)]

\* A plausible slip: waitForJob returning for every finished job.
isFailedOverlooked(status) == FALSE

\* if (status.isFailed)
isFailed(status) == status.isFailed

\* A plausible slip: a done status disregarded once the deadline has passed.
isDoneInTime(p) == loc[p].status.isDone /\ ~TimedOut(p)

\* if (status.isDone): the clock is not read.
isDone(p) == loc[p].status.isDone

\* waitForJob: the status just polled.  Done and failed throws; done returns;
\* otherwise the loop sleeps for the poll interval.
WaitForJobCheck(p) ==
    /\ Top(p) = "wfj_check"
    /\ IF isDone(p)
       THEN IF isFailed(loc[p].status)
            THEN /\ Throw(p, JobFailedError(errorMsg(loc[p].status.messages)))
                 /\ UNCHANGED loc
            ELSE /\ Return(p)
                 /\ UNCHANGED <<loc, outcome>>
       ELSE /\ Goto(p, "wfj_sleep")
            /\ Locals(p, [loc[p] EXCEPT !.sleepStart = now])
            /\ UNCHANGED outcome
    /\ UNCHANGED <<now, clientVars, job, inv, log, envVars>>

\* The timer of the sleep fires, no sooner than the poll interval.
SleepDone(p) ==
    /\ NoneRunning
    /\ Top(p) = "wfj_sleep"
    /\ now >= loc[p].sleepStart + PollTicks
    /\ Goto(p, "wfj_loop")
    /\ UNCHANGED <<now, clientVars, job, inv, loc, outcome, log, envVars>>

\* A plausible slip: a failed cancel let through instead of swallowed.
CancelErrorPropagates(p, r) ==
    IF r = "ok" THEN SplunkAPIError("Search job timed out", TRUE) ELSE AxiosError(r)

\* What waitForJob throws once the cancel request has returned or failed.
CancelError(p, r) == SplunkAPIError("Search job timed out", TRUE)

\* The answer to the cancel request; a failure is caught and ignored, and
\* waitForJob throws the timeout error.
CancelResponse(p) ==
    /\ NoneRunning
    /\ Top(p) = "cancel_wait"
    /\ \E r \in {"ok"} \cup HttpFailures :
         /\ Throw(p, CancelError(p, r))
         /\ IF r = "ok" THEN UNCHANGED log ELSE Logged(p, FailEntry("cancel", r))
    /\ job' = [job EXCEPT ![p] = IF @.state = "running"
                                  THEN [@ EXCEPT !.state = "cancelled"] ELSE @]
    /\ UNCHANGED <<now, clientVars, inv, loc, envVars>>

\* getJobStatus: const client = await this.getClient()
GetJobStatusStart(p) ==
    /\ Top(p) = "gjs_start"
    /\ Call(p, "gc", "gjs_get")
    /\ UNCHANGED <<now, clientVars, job, inv, loc, outcome, log, envVars>>

\* getJobStatus: the status request.
GetJobStatusSend(p) ==
    /\ Top(p) = "gjs_get"
    /\ Goto(p, "status_wait")
    /\ Logged(p, ReqEntry("status", <<>>, loc[p].gcClient))
    /\ UNCHANGED <<now, clientVars, job, inv, loc, outcome, envVars>>

\* The messages a failed job may carry.
JobMessages ==
    { <<>>,
      << [type |-> "WARN", text |-> "w1"], [type |-> "ERROR", text |-> "e1"],
         [type |-> "FATAL", text |-> "f1"] >>,
      << [type |-> "WARN", text |-> "w1"], [type |-> "ERROR", text |-> ""] >> }

\* The states a job may be in when its status is read: a running job may
\* have run on, a finished one stays as it is.
JobProgress(j) ==
    IF j.state # "running" THEN {j}
    ELSE {j}
         \cup {[state |-> "done", resultCount |-> n, messages |-> <<>>] :
                 n \in 0..MaxResultCount}
         \cup {[state |-> "failed", resultCount |-> 0, messages |-> m] : m \in JobMessages}

\* getJobStatus: the status returned for the content of the answer.
JobStatus(j) ==
    [isDone |-> j.state \in {"done", "failed"},
     isFailed |-> j.state = "failed",
     resultCount |-> j.resultCount,
     messages |-> j.messages]

\* The answer to a status request: the job's content, an answer without
\* content, or an HTTP error.
StatusResponse(p) ==
    /\ NoneRunning
    /\ Top(p) = "status_wait"
    /\ \/ \E j \in JobProgress(job[p]) :
            /\ job' = [job EXCEPT ![p] = j]
            /\ Locals(p, [loc[p] EXCEPT !.status = JobStatus(j)])
            /\ Logged(p, StatusEntry(JobStatus(j)))
            /\ Return(p)
            /\ UNCHANGED outcome
       \/ \E r \in {"invalid"} \cup HttpFailures :
            /\ IF r = "invalid"
               THEN /\ Throw(p, SplunkAPIError("Invalid job status response", FALSE))
                    /\ UNCHANGED log
               ELSE /\ Throw(p, AxiosError(r))
                    /\ Logged(p, FailEntry("status", r))
            /\ UNCHANGED <<job, loc>>
    /\ UNCHANGED <<now, clientVars, inv, envVars>>

\* The records a results response may hold.  A record is well formed when
\* every field EventSchema types as a string is one; a multivalue host, which
\* Splunk sends as an array, is not.
RawRecords ==
    { [time |-> <<"t1">>, stamp |-> 0, cutShift |-> 0, raw |-> <<"boom">>,
       host |-> <<"web01">>, source |-> <<>>, sourcetype |-> <<"syslog">>,
       index |-> <<"main">>, user |-> <<"alice">>, wellFormed |-> TRUE],
      [time |-> <<>>, stamp |-> InvalidDate, cutShift |-> 0, raw |-> <<"denied">>,
       host |-> <<"ignore", " ", "previous">>, source |-> <<"/", "var">>,
       sourcetype |-> <<>>, index |-> <<>>, user |-> <<>>, wellFormed |-> TRUE],
      [time |-> <<"t3">>, stamp |-> 0, cutShift |-> 0, raw |-> <<"multi">>,
       host |-> <<"a", "b">>, source |-> <<>>, sourcetype |-> <<>>,
       index |-> <<"main">>, user |-> <<>>, wellFormed |-> FALSE] }

\* What the results endpoint may answer for a job, asked for count records
\* (count 0 asks for all of them).
ResultSets(count, j) ==
    LET most == IF count > 0 /\ count < MaxRecords THEN count ELSE MaxRecords
        upto == IF j.resultCount < most THEN j.resultCount ELSE most
    IN UNION {[1..n -> RawRecords] : n \in 0..upto}

\* parseEvents: _time and _raw default to '', the record is kept when
\* EventSchema accepts it.
parseEvents(rawEvents) ==
    LET ok == SelectSeq(rawEvents, LAMBDA r : r.wellFormed)
    IN [i \in 1..Len(ok) |->
          [time |-> ok[i].time, stamp |-> ok[i].stamp, cutShift |-> ok[i].cutShift,
           raw |-> ok[i].raw, host |-> ok[i].host, source |-> ok[i].source,
           sourcetype |-> ok[i].sourcetype, index |-> ok[i].index,
           fields |-> [user |-> ok[i].user]]]

\* search / runSavedSearch: the results request, sent through the client the
\* operation obtained when it started.
SearchResults(p) ==
    /\ Top(p) = "search_results"
    /\ Goto(p, "results_wait")
    /\ Logged(p, ReqEntry("results", <<>>, loc[p].client))
    /\ UNCHANGED <<now, clientVars, job, inv, loc, outcome, envVars>>

\* The answer to the results request; then getJobStatus is called for the
\* total count.
ResultsResponse(p) ==
    /\ NoneRunning
    /\ Top(p) = "results_wait"
    /\ \/ \E raw \in ResultSets(loc[p].maxResults, job[p]) :
            /\ Locals(p, [loc[p] EXCEPT !.events = parseEvents(raw),
                                        !.executionTimeMs = now - loc[p].startTime])
            /\ Call(p, "gjs_start", "search_final")
            /\ UNCHANGED <<outcome, log>>
       \/ \E r \in HttpFailures :
            /\ Throw(p, AxiosError(r))
            /\ Logged(p, FailEntry("results", r))
            /\ UNCHANGED loc
    /\ UNCHANGED <<now, clientVars, job, inv, envVars>>

\* truncated: status.resultCount > maxResults
Truncated(resultCount, maxResults, events) == resultCount > maxResults

\* search / runSavedSearch: the SearchResult returned.  search measures the
\* execution time before the last status request, runSavedSearch after it.
SearchFinal(p) ==
    /\ Top(p) = "search_final"
    /\ Return(p)
    /\ Locals(p, [loc[p] EXCEPT !.result =
          [events |-> loc[p].events,
           totalCount |-> loc[p].status.resultCount,
           searchId |-> loc[p].sid,
           executionTimeMs |-> IF inv[p].tool = "splunk_run_saved_search"
                               THEN now - loc[p].startTime
                               ELSE loc[p].executionTimeMs,
           truncated |-> Truncated(loc[p].status.resultCount, loc[p].maxResults,
                                   loc[p].events)]])
    /\ UNCHANGED <<now, clientVars, job, inv, outcome, log, envVars>>

\* runSavedSearch: const client = await this.getClient()
RunSavedSearchStart(p) ==
    /\ Top(p) = "rss_start"
    /\ Call(p, "gc", "rss_dispatch")
    /\ UNCHANGED <<now, clientVars, job, inv, loc, outcome, log, envVars>>

\* runSavedSearch: the dispatch request; the wait and the results use
\* settings.searchTimeout and settings.maxResults.
RunSavedSearchDispatch(p) ==
    /\ Top(p) = "rss_dispatch"
    /\ Goto(p, "dispatch_wait")
    /\ Locals(p, [loc[p] EXCEPT !.client = loc[p].gcClient, !.startTime = now,
                                !.timeout = settings.searchTimeout,
                                !.maxResults = settings.maxResults])
    /\ Logged(p, JobEntry("dispatch", loc[p].query, loc[p].gcClient,
                          IF Sent(loc[p].earliestTime) THEN loc[p].earliestTime ELSE <<>>,
                          IF Sent(loc[p].latestTime) THEN loc[p].latestTime ELSE <<>>))
    /\ UNCHANGED <<now, clientVars, job, inv, outcome, envVars>>

DispatchResponse(p) == JobCreated(p, "dispatch_wait", "dispatch", "search_results")

\* Time passes while every invocation waits: for a timer, or, on a slow
\* network, for a response or for the agent's next call.
Tick ==
    /\ NoneRunning
    /\ workload.slowNetwork \/ \E p \in Procs : Top(p) = "wfj_sleep"
    /\ now < MaxTime
    /\ now' = now + 1
    /\ UNCHANGED <<clientVars, job, stack, inv, loc, outcome, log, envVars>>

(***************************************************************************)
(* tools/*.ts: the executors of the tools that run a query                 *)
(***************************************************************************)

\* The arguments of a tool call; a tool reads the ones its schema names.
NoArgs ==
    [query |-> Absent, earliest_time |-> Absent, latest_time |-> Absent,
     max_results |-> AbsentNumber, index |-> Absent, source |-> Absent,
     sourcetype |-> Absent, host |-> Absent, event_id |-> Absent,
     time_window |-> Absent, correlation_fields |-> <<Absent>>,
     before_count |-> AbsentNumber, after_count |-> AbsentNumber, name |-> Absent]

NoInvocation == [tool |-> "none", args |-> NoArgs]

\* zod: .default(d)
Default(v, d) == IF v = Absent THEN d ELSE v
DefaultNumber(n, d) == IF n = AbsentNumber THEN d ELSE n
\* zod: z.string().min(1)
Required(v) == v # Absent /\ v # <<>>
\* zod: z.number().min(lo).max(hi), optional with a default
InRange(n, lo, hi) == n = AbsentNumber \/ (n >= lo /\ n <= hi)
\* JavaScript truthiness of an optional string
Given(v) == v # Absent /\ v # <<>>

Quoted(txt) == <<"\"">> \o escapeSPLString(txt) \o <<"\"">>

\* query.toLowerCase().includes('index=')
IncludesIndex(query) == \E i \in 1..Len(query) : LowerCase(query[i]) = "index="

\* executeSearch, up to the scan: the error thrown, if any.
SearchInvalid(a) ==
    IF ~Required(a.query) \/ ~InRange(a.max_results, 1, 10000)
    THEN ValidationError("Invalid input")
    ELSE IF ~isValidTimeSpec(Default(a.earliest_time, <<"-", "24", "h">>))
    THEN ValidationError("Invalid earliest_time")
    ELSE IF ~isValidTimeSpec(Default(a.latest_time, <<"now">>))
    THEN ValidationError("Invalid latest_time")
    ELSE IF Given(a.index) /\ ~isValidIdentifier(a.index)
    THEN ValidationError("Invalid index name")
    ELSE NoError

\* executeSearch: fullQuery
fullQuery(a) ==
    IF Given(a.index) /\ ~IncludesIndex(a.query)
    THEN <<"index=">> \o a.index \o <<" ">> \o a.query
    ELSE a.query

\* executeGetEvents, up to the scan: the error thrown, if any.
GetEventsInvalid(a) ==
    IF ~Required(a.index) \/ ~InRange(a.max_results, 1, 10000)
    THEN ValidationError("Invalid input")
    ELSE IF ~isValidIdentifier(a.index)
    THEN ValidationError("Invalid index name")
    ELSE IF ~isValidTimeSpec(Default(a.earliest_time, <<"-", "24", "h">>))
    THEN ValidationError("Invalid earliest_time")
    ELSE IF ~isValidTimeSpec(Default(a.latest_time, <<"now">>))
    THEN ValidationError("Invalid latest_time")
    ELSE IF Given(a.sourcetype) /\ ~isValidIdentifier(a.sourcetype)
    THEN ValidationError("Invalid sourcetype")
    ELSE IF Given(a.host) /\ ~isValidHostname(a.host)
    THEN ValidationError("Invalid hostname")
    ELSE IF Given(a.source) /\ ~isValidSourcePath(a.source)
    THEN ValidationError("Invalid source path")
    ELSE NoError

\* executeGetEvents: queryParts.join(' ')
GetEventsQuery(a) ==
    Join(<< <<"index=">> \o a.index >>
         \o (IF Given(a.sourcetype)
             THEN << <<"sourcetype", "=">> \o Quoted(a.sourcetype) >> ELSE <<>>)
         \o (IF Given(a.host) THEN << <<"host", "=">> \o Quoted(a.host) >> ELSE <<>>)
         \o (IF Given(a.source) THEN << <<"source", "=">> \o Quoted(a.source) >> ELSE <<>>),
         <<" ">>)

\* String.prototype.replace('--', '-'): the first "--" loses one dash.
RECURSIVE ReplaceDashDash(_)
ReplaceDashDash(txt) ==
    IF Len(txt) < 2 THEN txt
    ELSE IF txt[1] = "-" /\ txt[2] = "-" THEN Tail(txt)
    ELSE <<txt[1]>> \o ReplaceDashDash(Tail(txt))

DefaultCorrelationFields == << <<"host">>, <<"source">>, <<"user">> >>

CorrelationFields(a) ==
    IF a.correlation_fields = <<Absent>> THEN DefaultCorrelationFields
    ELSE a.correlation_fields

\* executeCorrelate, up to the first scan: the error thrown, if any.
CorrelateInvalid(a) ==
    IF ~Required(a.event_id) \/ ~InRange(a.max_results, 1, 1000)
    THEN ValidationError("Invalid input")
    ELSE IF ~isValidEventId(a.event_id)
    THEN ValidationError("Invalid event_id")
    ELSE IF ~isValidTimeSpec(ReplaceDashDash(<<"-">> \o Default(a.time_window, <<"5", "m">>)))
    THEN ValidationError("Invalid time_window")
    ELSE IF \E i \in 1..Len(CorrelationFields(a)) : ~isValidFieldName(CorrelationFields(a)[i])
    THEN ValidationError("Invalid correlation field")
    ELSE NoError

\* executeCorrelate: sourceQuery; executeGetContext: targetQuery
EventQuery(eventId) ==
    <<"_cd", "=">> \o Quoted(eventId) \o <<" ", "OR", " ", "_serial", "=">> \o Quoted(eventId)

\* sourceEvent.fields[field] || sourceEvent[field], when it is a string
FieldValue(event, field) ==
    CASE field = <<"user">> -> event.fields.user
      [] field = <<"host">> -> event.host
      [] field = <<"source">> -> event.source
      [] field = <<"index">> -> event.index
      [] field = <<"_time">> -> event.time
      [] field = <<"_raw">> -> event.raw
      [] OTHER -> <<>>

\* fieldValue.trim() is not empty
NotBlank(txt) == \E i \in 1..Len(txt) : ~IsSpace(txt[i])

\* executeCorrelate: correlationClauses
RECURSIVE correlationClauses(_, _)
correlationClauses(event, fields) ==
    IF fields = <<>> THEN <<>>
    ELSE (IF NotBlank(FieldValue(event, Head(fields)))
          THEN << Head(fields) \o <<"=">> \o Quoted(FieldValue(event, Head(fields))) >>
          ELSE <<>>)
         \o correlationClauses(event, Tail(fields))

\* executeCorrelate: correlationQuery
correlationQuery(a, event) ==
    <<"(">> \o Join(correlationClauses(event, CorrelationFields(a)), <<" ", "OR", " ">>)
    \o <<")", " ", "NOT", " ", "(", "_cd", "=">> \o Quoted(a.event_id) \o <<")">>

\* time_window.match(/^(\d+)([smhd])$/)
TimeWindowMatch(tw) == Len(tw) = 2 /\ IsDigits(tw[1]) /\ tw[2] \in {"s", "m", "h", "d"}

\* executeGetContext, up to the first scan: the error thrown, if any.
GetContextInvalid(a) ==
    IF \/ ~Required(a.event_id)
       \/ ~InRange(a.before_count, 0, 100) \/ ~InRange(a.after_count, 0, 100)
    THEN ValidationError("Invalid input")
    ELSE IF ~isValidEventId(a.event_id)
    THEN ValidationError("Invalid event_id")
    ELSE NoError

\* executeGetContext: contextBase
contextBase(event) ==
    LET contextFilters ==
            (IF event.host # <<>> THEN << <<"host", "=">> \o Quoted(event.host) >> ELSE <<>>)
            \o (IF event.source # <<>>
                THEN << <<"source", "=">> \o Quoted(event.source) >> ELSE <<>>)
    IN IF contextFilters = <<>> THEN <<"*">> ELSE Join(contextFilters, <<" ">>)

\* executeGetContext: beforeQuery (op "<", reversed) and afterQuery (op ">")
ContextQuery(event, op, count) ==
    <<"index=">> \o (IF event.index = <<>> THEN <<"*">> ELSE event.index)
    \o <<" ">> \o contextBase(event)
    \o <<" ", "_time", op, "\"">> \o event.time \o <<"\"">>
    \o <<" ", "|", " ", "head", " ", ToString(count)>>
    \o (IF op = "<" THEN <<" ", "|", " ", "reverse">> ELSE <<>>)

\* executeRunSavedSearch, up to the dispatch: the error thrown, if any.
RunSavedSearchInvalid(a) ==
    IF ~Required(a.name) THEN ValidationError("Invalid input")
    ELSE IF CharLen(a.name) > 256 THEN ValidationError("Invalid saved search name")
    ELSE NoError

\* assertQuerySafe(query), then client.search(query, options); the tool goes
\* on at ret when the search returns.
Gate(p, err, query, earliestTime, latestTime, maxResults, kept, ret) ==
    /\ Logged(p, ScanEntry(query, err = NoError))
    /\ IF err # NoError
       THEN /\ Throw(p, err)
            /\ UNCHANGED loc
       ELSE /\ Call(p, "search_start", ret)
            /\ Locals(p, [NoLocals EXCEPT !.query = query,
                                          !.earliestTime = earliestTime,
                                          !.latestTime = latestTime,
                                          !.maxResults = maxResults,
                                          !.kept = kept])
            /\ UNCHANGED outcome

ScanThenSearch(p, query, earliestTime, latestTime, maxResults, kept, ret) ==
    Gate(p, assertQuerySafe(query), query, earliestTime, latestTime, maxResults, kept, ret)

\* A validation error ends the invocation before any scan.
Reject(p, err) ==
    /\ Throw(p, err)
    /\ UNCHANGED <<loc, log>>

\* The tool returns.
Finish(p, result, returnedCount, hasEvents, note) ==
    /\ stack' = [stack EXCEPT ![p] = <<>>]
    /\ outcome' = [outcome EXCEPT ![p] =
          [status |-> "ok", error |-> NoError, result |-> result,
           returnedCount |-> returnedCount, hasEvents |-> hasEvents, note |-> note,
           audit |-> outcome[p].audit
                       \o logAuditEvent(settings.enableAuditLog,
                                        <<auditToolSuccess(inv[p].tool)>>),
           response |-> [kind |-> "result",
                         trust |-> IF shouldComputeTrust(inv[p].tool, hasEvents)
                                   THEN computeTrustForResult(result, process.etl, now)
                                   ELSE <<>>,
                         error |-> McpError("", <<>>)]]]

toolFrame == <<now, clientVars, job, inv, envVars>>

\* settings.defaultEarliestTime, settings.defaultLatestTime
DefaultEarliest == <<"-", "24", "h">>
DefaultLatest == <<"now">>

executeSearch(p) ==
    /\ Top(p) = "tool"
    /\ inv[p].tool = "splunk_search"
    /\ LET a == inv[p].args
       IN IF SearchInvalid(a) # NoError THEN Reject(p, SearchInvalid(a))
          ELSE ScanThenSearch(p, fullQuery(a),
                              Default(a.earliest_time, DefaultEarliest),
                              Default(a.latest_time, DefaultLatest),
                              DefaultNumber(a.max_results, 1000), <<>>, "tool_result")
    /\ UNCHANGED toolFrame

executeGetEvents(p) ==
    /\ Top(p) = "tool"
    /\ inv[p].tool = "splunk_get_events"
    /\ LET a == inv[p].args
       IN IF GetEventsInvalid(a) # NoError THEN Reject(p, GetEventsInvalid(a))
          ELSE ScanThenSearch(p, GetEventsQuery(a),
                              Default(a.earliest_time, DefaultEarliest),
                              Default(a.latest_time, DefaultLatest),
                              DefaultNumber(a.max_results, 100), <<>>, "tool_result")
    /\ UNCHANGED toolFrame

\* executeRunSavedSearch: the name is checked for its length and dispatched.
executeRunSavedSearch(p) ==
    /\ Top(p) = "tool"
    /\ inv[p].tool = "splunk_run_saved_search"
    /\ LET a == inv[p].args
       IN IF RunSavedSearchInvalid(a) # NoError
          THEN Reject(p, RunSavedSearchInvalid(a))
          ELSE /\ Call(p, "rss_start", "tool_result")
               /\ Locals(p, [NoLocals EXCEPT !.query = a.name,
                                             !.earliestTime = a.earliest_time,
                                             !.latestTime = a.latest_time])
               /\ UNCHANGED <<outcome, log>>
    /\ UNCHANGED toolFrame

\* executeSearch, executeGetEvents, executeRunSavedSearch: the result, with
\* returnedCount: result.events.length.
ToolResult(p) ==
    /\ Top(p) = "tool_result"
    /\ Finish(p, loc[p].result, Len(loc[p].result.events), TRUE, "")
    /\ UNCHANGED <<loc, log>>
    /\ UNCHANGED toolFrame

executeCorrelate(p) ==
    /\ Top(p) = "tool"
    /\ inv[p].tool = "splunk_correlate"
    /\ LET a == inv[p].args
       IN IF CorrelateInvalid(a) # NoError THEN Reject(p, CorrelateInvalid(a))
          ELSE ScanThenSearch(p, EventQuery(a.event_id), DefaultEarliest, DefaultLatest,
                              1, <<>>, "corr_source")
    /\ UNCHANGED toolFrame

\* executeCorrelate, once the source event search has returned.
CorrelateSource(p) ==
    /\ Top(p) = "corr_source"
    /\ LET a == inv[p].args
           sourceResult == loc[p].result
           tw == Default(a.time_window, <<"5", "m">>)
       IN IF sourceResult.events = <<>>
          THEN /\ Finish(p, NoResult, 0, FALSE, "Source event not found")
               /\ UNCHANGED <<loc, log>>
          ELSE IF correlationClauses(sourceResult.events[1], CorrelationFields(a)) = <<>>
          THEN /\ Finish(p, NoResult, 0, FALSE, "No correlation fields found in source event")
               /\ UNCHANGED <<loc, log>>
          ELSE ScanThenSearch(p, correlationQuery(a, sourceResult.events[1]),
                              IF TimeWindowMatch(tw) THEN <<"-">> \o tw ELSE <<"-", "5", "m">>,
                              IF TimeWindowMatch(tw) THEN <<"+">> \o tw ELSE <<"+", "5", "m">>,
                              DefaultNumber(a.max_results, 100),
                              <<sourceResult>>, "corr_related")
    /\ UNCHANGED toolFrame

\* executeCorrelate: the result; its events are under relatedEvents.
CorrelateRelated(p) ==
    /\ Top(p) = "corr_related"
    /\ Finish(p, loc[p].result, Len(loc[p].result.events), FALSE, "")
    /\ UNCHANGED <<loc, log>>
    /\ UNCHANGED toolFrame

executeGetContext(p) ==
    /\ Top(p) = "tool"
    /\ inv[p].tool = "splunk_get_context"
    /\ LET a == inv[p].args
       IN IF GetContextInvalid(a) # NoError THEN Reject(p, GetContextInvalid(a))
          ELSE ScanThenSearch(p, EventQuery(a.event_id), DefaultEarliest, DefaultLatest,
                              1, <<>>, "ctx_target")
    /\ UNCHANGED toolFrame

\* executeGetContext, once the target event search has returned.
ContextTarget(p) ==
    /\ Top(p) = "ctx_target"
    /\ LET targetResult == loc[p].result
       IN IF targetResult.events = <<>>
          THEN /\ Finish(p, NoResult, 0, FALSE, "Target event not found")
               /\ UNCHANGED <<loc, log>>
          ELSE ScanThenSearch(p, ContextQuery(targetResult.events[1], "<",
                                              DefaultNumber(inv[p].args.before_count, 10)),
                              DefaultEarliest, DefaultLatest,
                              DefaultNumber(inv[p].args.before_count, 10),
                              <<targetResult>>, "ctx_before")
    /\ UNCHANGED toolFrame

\* executeGetContext, once the search for the events before has returned.
ContextBefore(p) ==
    /\ Top(p) = "ctx_before"
    /\ ScanThenSearch(p, ContextQuery(loc[p].kept[1].events[1], ">",
                                      DefaultNumber(inv[p].args.after_count, 10)),
                      DefaultEarliest, DefaultLatest,
                      DefaultNumber(inv[p].args.after_count, 10),
                      loc[p].kept \o <<loc[p].result>>, "ctx_after")
    /\ UNCHANGED toolFrame

\* executeGetContext: the result; its events are under beforeEvents,
\* targetEvent and afterEvents.
ContextAfter(p) ==
    /\ Top(p) = "ctx_after"
    /\ Finish(p, loc[p].result, Len(loc[p].result.events), FALSE, "")
    /\ UNCHANGED <<loc, log>>
    /\ UNCHANGED toolFrame

\* A tool call arrives (server.ts, the CallToolRequest handler): the agent
\* sends one of the calls of the workload while it has calls left and the
\* server handles fewer than workload.concurrency of them.
Invoke(p) ==
    /\ NoneRunning
    /\ Top(p) = "idle"
    /\ \A q \in Procs : q < p => Top(q) # "idle"
    /\ p <= workload.concurrency
    /\ workload.calls > 0
    /\ process.phase = "serving"
    /\ \E r \in workload.requests :
         /\ inv' = [inv EXCEPT ![p] = r]
         /\ IF ~process.client
            THEN /\ stack' = [stack EXCEPT ![p] = <<>>]
                 /\ outcome' = [outcome EXCEPT ![p] =
                       Caught(r, McpErrorThrown("InternalError", "Splunk client not initialized"),
                              logAuditEvent(settings.enableAuditLog, <<auditToolCall(r.tool)>>),
                              settings.enableAuditLog)]
            ELSE IF ~toolExists(r.tool)
            THEN /\ stack' = [stack EXCEPT ![p] = <<>>]
                 /\ outcome' = [outcome EXCEPT ![p] =
                       Caught(r, McpErrorThrown("MethodNotFound", "Unknown tool"),
                              logAuditEvent(settings.enableAuditLog, <<auditToolCall(r.tool)>>),
                              settings.enableAuditLog)]
            ELSE /\ stack' = [stack EXCEPT ![p] = <<"tool">>]
                 /\ outcome' = [outcome EXCEPT ![p] =
                       [NoOutcome EXCEPT !.audit =
                           logAuditEvent(settings.enableAuditLog, <<auditToolCall(r.tool)>>)]]
    /\ workload' = [workload EXCEPT !.calls = @ - 1]
    /\ log' = [log EXCEPT ![p] = <<>>]
    /\ loc' = [loc EXCEPT ![p] = NoLocals]
    /\ job' = [job EXCEPT ![p] = NoJob]
    /\ UNCHANGED <<now, clientVars, scan, etl, process, sink, settings>>

(***************************************************************************)
(* The scanner on its own: every text and parameter list within the        *)
(* bounds, handed to scanQuery, assertQuerySafe and scanParameters.        *)
(***************************************************************************)
MaxScanLen == 4

ScanVocabulary == {"|", " ", "delete", "DeLeTe", "python", "[INST]", "http://", "error"}

RECURSIVE TextsUpTo(_, _)
TextsUpTo(vocabulary, n) ==
    IF n = 0 THEN {<<>>}
    ELSE LET shorter == TextsUpTo(vocabulary, n - 1)
         IN shorter \cup {Append(t, v) : t \in {s \in shorter : Len(s) = n - 1},
                                         v \in vocabulary}

ScanTexts == TextsUpTo(ScanVocabulary, MaxScanLen)

\* Texts a parameter may hold: harmless ones, and one of each kind of issue.
ParamTexts ==
    { <<"error">>, <<"host">>,
      <<"|", " ", "delete">>,            \* read-only violation, critical
      <<"|", "python">>,                  \* injection, critical
      <<"ignore", "_", "previous">>,      \* prompt injection, high
      <<"http://", "error">> }            \* exfiltration, medium

ScanParamLists ==
    { << [key |-> "event_id", kind |-> "string", items |-> <<a>>],
         [key |-> "max_results", kind |-> "other", items |-> <<>>],
         [key |-> "correlation_fields", kind |-> "array", items |-> arr] >> :
        a \in ParamTexts,
        arr \in {<<>>} \cup {<<b>> : b \in ParamTexts}
                       \cup {<<b, c>> : b \in ParamTexts, c \in ParamTexts} }

ScanIdle(input) ==
    [pc |-> "ready", query |-> input.query, params |-> input.params,
     verdict |-> scanQuery(<<>>), error |-> NoError]

ScanInputs ==
    {[query |-> q, params |-> <<>>] : q \in ScanTexts}
    \cup {[query |-> <<>>, params |-> ps] : ps \in ScanParamLists}

serverVars == <<settings, workload, now, auth, transport, nextKey, job, stack, inv,
                loc, outcome, log>>

vars == <<scan, etl, process, sink, settings, workload, now, auth, transport, nextKey, job,
          stack, inv, loc, outcome, log>>

\* The scorer called directly, before its first call.
EtlIdle(input) ==
    [pc |-> input.pc, score |-> input.score, thresholds |-> input.thresholds,
     decision |-> "", results |-> input.results, clock |-> 0, steps |-> 0,
     reports |-> <<>>, lastMissingFields |-> {}]

EtlOff == EtlIdle([pc |-> "off", score |-> 0, thresholds |-> DefaultThresholds,
                   results |-> {}])

\* The audit module before its first call: nothing buffered, no timer, nothing
\* written; left: the calls still to come.
SinkIdle(held, left) ==
    [phase |-> IF left = 0 THEN "off" ELSE "running", last |-> "",
     auditBuffer |-> held, flushTimer |-> held # <<>>, written |-> <<>>,
     recorded |-> Len(held), left |-> left]

SinkOff == SinkIdle(<<>>, 0)

\* config.ts settings; the thresholds and the audit switch have their defaults.
Settings(credentials, searchTimeout, maxResults) ==
    [credentials |-> credentials, searchTimeout |-> searchTimeout,
     maxResults |-> maxResults, trustThresholdProceed |-> DefaultProceed,
     trustThresholdCaution |-> DefaultCaution, enableAuditLog |-> TRUE]

\* new ETLMiddleware(): the instance keeps the thresholds of the settings.
ETLMiddleware(s) ==
    [proceed |-> s.trustThresholdProceed, caution |-> s.trustThresholdCaution]

\* main() has validated the configuration, constructed the server, initialized
\* the client and connected the transport.
Serving(s) == [phase |-> "serving", client |-> TRUE, etl |-> ETLMiddleware(s)]

\* The client once SplunkMCPServer.initialize has succeeded at time 0: a token
\* is used as it is, a username and password have opened the first session.
Started(credentials) ==
    /\ now = 0
    /\ nextKey = (IF credentials = "token" THEN 0 ELSE 1)
    /\ auth = (IF credentials = "token"
               THEN [mode |-> "token", key |-> TokenKey, exp |-> NoExpiry]
               ELSE [mode |-> "session", key |-> 1, exp |-> SessionWindow])
    /\ transport = [key |-> auth.key, exp |-> auth.exp]
    /\ process = Serving(settings)

\* No tool call has arrived.
Quiet ==
    /\ job = [p \in Procs |-> NoJob]
    /\ stack = [p \in Procs |-> <<>>]
    /\ inv = [p \in Procs |-> NoInvocation]
    /\ loc = [p \in Procs |-> NoLocals]
    /\ outcome = [p \in Procs |-> NoOutcome]
    /\ log = [p \in Procs |-> <<>>]

InitScan ==
    /\ scan \in {ScanIdle(i) : i \in ScanInputs}
    /\ sink = SinkOff
    /\ settings = Settings("token", 0, 1000)
    /\ etl = EtlOff
    /\ workload = [requests |-> {}, concurrency |-> 0, calls |-> 0, slowNetwork |-> FALSE]
    /\ Started("token")
    /\ Quiet

DoScanQuery ==
    /\ scan.pc = "ready"
    /\ scan.params = <<>>
    /\ scan' = [scan EXCEPT !.pc = "scanQuery", !.verdict = scanQuery(scan.query)]
    /\ UNCHANGED <<serverVars, etl, process, sink>>

DoAssertQuerySafe ==
    /\ scan.pc = "ready"
    /\ scan.params = <<>>
    /\ scan' = [scan EXCEPT !.pc = "assertQuerySafe",
                            !.verdict = scanQuery(scan.query),
                            !.error = assertQuerySafe(scan.query)]
    /\ UNCHANGED <<serverVars, etl, process, sink>>

DoScanParameters ==
    /\ scan.pc = "ready"
    /\ scan.params # <<>>
    /\ scan' = [scan EXCEPT !.pc = "scanParameters",
                            !.verdict = scanParameters(scan.params)]
    /\ UNCHANGED <<serverVars, etl, process, sink>>

NextScan == DoScanQuery \/ DoAssertQuerySafe \/ DoScanParameters

SpecScan == InitScan /\ [][NextScan]_vars

(***************************************************************************)
(* The server handling tool calls one at a time                            *)
(***************************************************************************)
MaxCalls == 1

ScanOff == ScanIdle([query |-> <<>>, params |-> <<>>])

Request(tool, args) == [tool |-> tool, args |-> args]

Search(query, index, earliest, max) ==
    Request("splunk_search", [NoArgs EXCEPT !.query = query, !.index = index,
                                            !.earliest_time = earliest,
                                            !.max_results = max])

SearchRequests ==
    { Search(<<"error">>, Absent, Absent, 1),
      Search(<<"|", " ", "delete">>, Absent, Absent, AbsentNumber),
      Search(<<"previous">>, <<"ignore">>, Absent, AbsentNumber),
      Search(<<"|", "python">>, <<"main">>, <<"-", "24", "h">>, 1),
      Search(<<>>, Absent, Absent, AbsentNumber),
      Search(<<"|", " ", "delete">>, <<"a", "|", "b">>, Absent, AbsentNumber),
      Search(<<"|", " ", "delete">>, Absent, <<"yesterday">>, AbsentNumber),
      Search(<<"|", " ", "delete">>, Absent, Absent, 0) }

GetEventsRequests ==
    { Request("splunk_get_events", [NoArgs EXCEPT !.index = i, !.host = h, !.max_results = 1]) :
        i \in { <<"main">>, <<"ma", "|", "in">> },
        h \in { Absent, <<"web01">>, <<"ignore", "-", "previous">> } }

CorrelateRequests ==
    { Request("splunk_correlate", [NoArgs EXCEPT !.event_id = e, !.correlation_fields = f,
                                                 !.max_results = 1]) :
        e \in { <<"1", ":", "2">>, <<"ignore", ".", "previous">> },
        f \in { <<Absent>>, << <<"host">>, <<"ignore", "_", "previous">> >>,
                << <<"a", " ", "b">> >> } }

GetContextRequests ==
    { Request("splunk_get_context", [NoArgs EXCEPT !.event_id = e, !.before_count = 1,
                                                   !.after_count = 1]) :
        e \in { <<"1", ":", "2">>, <<"1", " ", "2">> } }

RunSavedSearchRequests ==
    { Request("splunk_run_saved_search", [NoArgs EXCEPT !.name = n, !.earliest_time = e]) :
        n \in { <<"daily">>, <<"x", " ", "|", " ", "delete">>, <<>> },
        e \in { Absent, <<"yesterday">> } }

\* A call of a tool the server does not have.
UnknownToolRequests == {Request("splunk_delete_index", NoArgs)}

ToolRequests ==
    SearchRequests \cup GetEventsRequests \cup CorrelateRequests
    \cup GetContextRequests \cup RunSavedSearchRequests \cup UnknownToolRequests

SettingsChoices ==
    { Settings(c, t, m) :
        c \in {"token", "session"}, t \in 0..MaxSearchTimeout, m \in {1, 1000} }

Init ==
    /\ scan = ScanOff
    /\ sink = SinkOff
    /\ etl = EtlOff
    /\ settings \in {[s EXCEPT !.enableAuditLog = a] :
                        s \in {c \in SettingsChoices : c.maxResults = 1}, a \in BOOLEAN}
    /\ workload = [requests |-> ToolRequests, concurrency |-> 1, calls |-> MaxCalls,
                   slowNetwork |-> FALSE]
    /\ Started(settings.credentials)
    /\ Quiet

Next ==
    \/ Tick
    \/ \E p \in Procs :
         \/ Invoke(p)
         \/ executeSearch(p) \/ executeGetEvents(p) \/ executeRunSavedSearch(p)
         \/ ToolResult(p)
         \/ executeCorrelate(p) \/ CorrelateSource(p) \/ CorrelateRelated(p)
         \/ executeGetContext(p) \/ ContextTarget(p) \/ ContextBefore(p)
         \/ ContextAfter(p)
         \/ SearchStart(p) \/ SearchCreate(p) \/ CreateResponse(p)
         \/ RunSavedSearchStart(p) \/ RunSavedSearchDispatch(p) \/ DispatchResponse(p)
         \/ SearchResults(p) \/ ResultsResponse(p) \/ SearchFinal(p)
         \/ WaitForJobStart(p) \/ WaitForJobInit(p) \/ WaitForJobLoop(p)
         \/ WaitForJobCheck(p) \/ SleepDone(p) \/ CancelResponse(p)
         \/ GetJobStatusStart(p) \/ GetJobStatusSend(p) \/ StatusResponse(p)
         \/ GetClient(p) \/ GetClientExpiry(p) \/ GetClientReturn(p)
         \/ Initialize(p) \/ LoginResponse(p)

Spec == Init /\ [][Next]_vars

(***************************************************************************)
(* The trust scorer on its own: one ETLMiddleware instance, handed results *)
(* and asked for decisions at the times the clock shows.                   *)
(***************************************************************************)
MaxReports == 2         \* computeTrust calls on the instance
MaxClockSteps == 1      \* times the clock moves between the calls
ScenarioEvents == 50
ScoreUnit == 2          \* a score handed to the decision: half-hundredths

\* Hours by which a reading can move when the zone suffix is dropped and the
\* text is read in the zone of the process: zones span -12:00 to +14:00.
ZoneShifts == {0 - 26, 0, 26}

\* How far the clock moves in one step: past the recent window.
ClockSteps == {RecentHours + 1}

ThresholdPairs ==
    {[proceed |-> hi, caution |-> lo] : hi \in {DefaultProceed, 100},
                                        lo \in {0, DefaultCaution}}

TrustEvent(stamp, shift, raw, host, sourcetype, fields) ==
    [time |-> IF stamp = InvalidDate THEN <<>> ELSE <<"t">>,
     stamp |-> stamp, cutShift |-> shift, raw |-> raw, host |-> host,
     source |-> <<"/", "var">>, sourcetype |-> sourcetype, index |-> <<"main">>,
     fields |-> fields]

FieldShapes == <<[user |-> <<"alice">>], [status |-> <<"500">>], [user |-> <<"bob">>, status |-> <<"200">>]>>

\* A complete event of the hour 0 with the k-th shape of extra fields.
ScenarioEvent(k, shift) ==
    TrustEvent(0, shift, <<"boom">>, <<"web01">>, <<"syslog">>, FieldShapes[k])

\* n copies of an event.
Repeat(n, event) == [i \in 1..n |-> event]

\* The result a description stands for: its runs of equal events, in order.
RECURSIVE EventsOf(_)
EventsOf(runs) ==
    IF runs = <<>> THEN <<>>
    ELSE Repeat(Head(runs).n, Head(runs).event) \o EventsOf(Tail(runs))

RECURSIVE Total(_)
Total(runs) == IF runs = <<>> THEN 0 ELSE Head(runs).n + Total(Tail(runs))

SplunkSearchResult(d) ==
    [events |-> EventsOf(d.runs),
     totalEvents |-> IF d.truncated THEN Total(d.runs) + 1 ELSE Total(d.runs),
     returnedEvents |-> Total(d.runs),
     truncated |-> d.truncated,
     searchId |-> d.searchId,
     executionTimeMs |-> d.executionTimeMs,
     error |-> d.error,
     aggregations |-> d.aggregations]

\* Scenario results: ScenarioEvents complete events of the hour 0, split in
\* every way among the three field shapes.
ScenarioSplits ==
    {s \in (0..ScenarioEvents) \X (0..ScenarioEvents) : s[1] + s[2] <= ScenarioEvents}

ScenarioResults ==
    {[runs |-> <<[n |-> s[1], event |-> ScenarioEvent(1, shift)],
                 [n |-> s[2], event |-> ScenarioEvent(2, shift)],
                 [n |-> ScenarioEvents - s[1] - s[2], event |-> ScenarioEvent(3, shift)]>>,
      truncated |-> t, searchId |-> "sid", executionTimeMs |-> 40,
      error |-> "", aggregations |-> agg] :
        s \in ScenarioSplits, shift \in ZoneShifts, t \in BOOLEAN, agg \in BOOLEAN}

SmallEvents ==
    { TrustEvent(0, 0, <<"boom">>, <<"web01">>, <<"syslog">>, FieldShapes[1]),
      TrustEvent(0 - 30, 0, <<" ">>, <<"web01">>, <<>>, FieldShapes[2]),
      TrustEvent(InvalidDate, 0, <<>>, <<>>, <<>>, FieldShapes[3]) }

SmallResults ==
    {[runs |-> runs, truncated |-> t, searchId |-> sid, executionTimeMs |-> ms,
      error |-> err, aggregations |-> agg] :
        runs \in {<<>>} \cup {<<[n |-> 1, event |-> e]>> : e \in SmallEvents}
                        \cup {<<[n |-> 1, event |-> e], [n |-> 1, event |-> f]>> :
                                 e \in SmallEvents, f \in SmallEvents},
        t \in BOOLEAN, sid \in {"", "sid"}, ms \in {0, 40, 3000, 12000},
        err \in {"", "boom"}, agg \in BOOLEAN}

TrustInputs ==
    {[pc |-> "decide", score |-> s, thresholds |-> t, results |-> {}] :
        s \in 0..(100 * ScoreUnit), t \in {x \in ThresholdPairs : x.proceed > x.caution}}
    \cup {[pc |-> "compute", score |-> 0, thresholds |-> DefaultThresholds,
           results |-> {d}] : d \in ScenarioResults}
    \cup {[pc |-> "compute", score |-> 0, thresholds |-> DefaultThresholds,
           results |-> {d}] : d \in SmallResults}

InitTrust ==
    /\ etl \in {EtlIdle(i) : i \in TrustInputs}
    /\ scan = ScanOff
    /\ sink = SinkOff
    /\ settings = Settings("token", 0, 1000)
    /\ workload = [requests |-> {}, concurrency |-> 0, calls |-> 0, slowNetwork |-> FALSE]
    /\ Started("token")
    /\ Quiet

\* determineThresholdDecision on the score handed in.
DoDetermineThresholdDecision ==
    /\ etl.pc = "decide"
    /\ etl' = [etl EXCEPT !.pc = "decided",
                          !.decision = determineThresholdDecision(
                                           etl.score, ScoreUnit, etl.thresholds)]
    /\ UNCHANGED <<serverVars, scan, process, sink>>

\* computeTrust on one of the results, at the time the clock shows.
DoComputeTrust ==
    /\ etl.pc = "compute"
    /\ Len(etl.reports) < MaxReports
    /\ \E d \in etl.results :
          etl' = [etl EXCEPT
                    !.reports = Append(@, [result |-> d,
                                           trust |-> computeTrust(SplunkSearchResult(d),
                                                                  etl.thresholds, etl.clock)]),
                    !.lastMissingFields =
                        computeCompletenessWithDetails(SplunkSearchResult(d)).missingFields]
    /\ UNCHANGED <<serverVars, scan, process, sink>>

\* Time passes between two calls.
ClockStep ==
    /\ etl.pc = "compute"
    /\ etl.steps < MaxClockSteps
    /\ \E h \in ClockSteps :
          etl' = [etl EXCEPT !.clock = @ + h, !.steps = @ + 1]
    /\ UNCHANGED <<serverVars, scan, process, sink>>

NextTrust == DoDetermineThresholdDecision \/ DoComputeTrust \/ ClockStep

SpecTrust == InitTrust /\ [][NextTrust]_vars

(***************************************************************************)
(* The process from its start: main() validates the configuration,         *)
(* constructs the server, initializes the client and connects the          *)
(* transport; only then can a tool call arrive.                            *)
(***************************************************************************)
NotStarted ==
    [phase |-> "main", client |-> FALSE, etl |-> [proceed |-> 0, caution |-> 0]]

\* A plausible slip: equal thresholds pass.
thresholdErrorsWhenBelow(s) ==
    IF s.trustThresholdProceed < s.trustThresholdCaution
    THEN {"TRUST_THRESHOLD_PROCEED must be greater than TRUST_THRESHOLD_CAUTION"}
    ELSE {}

thresholdErrors(s) ==
    IF s.trustThresholdProceed <= s.trustThresholdCaution
    THEN {"TRUST_THRESHOLD_PROCEED must be greater than TRUST_THRESHOLD_CAUTION"}
    ELSE {}

\* validateConfig: the errors it collects (the host is taken as configured).
validateConfig(s) ==
    (IF s.credentials = "none" THEN {"No credentials configured"} ELSE {})
    \cup thresholdErrors(s)

StartupSettings ==
    {[Settings(c, t, 1) EXCEPT !.trustThresholdProceed = th.proceed,
                               !.trustThresholdCaution = th.caution] :
        c \in {"token", "session", "none"}, t \in 0..MaxSearchTimeout,
        th \in {DefaultThresholds,
                [proceed |-> DefaultCaution, caution |-> DefaultCaution],
                [proceed |-> DefaultCaution, caution |-> DefaultProceed]}}

InitStartup ==
    /\ scan = ScanOff
    /\ sink = SinkOff
    /\ etl = EtlOff
    /\ settings \in StartupSettings
    /\ workload = [requests |-> ToolRequests, concurrency |-> 1, calls |-> MaxCalls,
                   slowNetwork |-> FALSE]
    /\ process = NotStarted
    /\ now = 0
    /\ nextKey = 0
    /\ auth = NoAuth
    /\ transport = NullClient
    /\ Quiet

startupFrame == <<scan, etl, sink, settings, workload, now, job, stack, inv, loc, outcome, log>>

\* main: validateConfig(); what it throws is caught by main, which exits.
MainValidateConfig ==
    /\ process.phase = "main"
    /\ process' = [process EXCEPT !.phase = IF validateConfig(settings) = {}
                                           THEN "validated" ELSE "exited"]
    /\ UNCHANGED <<startupFrame, clientVars>>

\* main: server = new SplunkMCPServer(), which constructs the ETLMiddleware.
MainConstruct ==
    /\ process.phase = "validated"
    /\ process' = [process EXCEPT !.phase = "constructed", !.etl = ETLMiddleware(settings)]
    /\ UNCHANGED <<startupFrame, clientVars>>

\* start: initialize() loads the credentials, initializes the client (a token
\* is used as it is, a username and password open the first session) and makes
\* the health check; a failure of any of them ends the process.
ServerInitialize ==
    /\ process.phase = "constructed"
    /\ \/ /\ process' = [process EXCEPT !.phase = "initialized", !.client = TRUE]
          /\ nextKey' = (IF settings.credentials = "token" THEN 0 ELSE 1)
          /\ auth' = (IF settings.credentials = "token"
                      THEN [mode |-> "token", key |-> TokenKey, exp |-> NoExpiry]
                      ELSE [mode |-> "session", key |-> 1, exp |-> now + SessionWindow])
          /\ transport' = createAuthenticatedClient(auth')
       \/ /\ process' = [process EXCEPT !.phase = "exited"]
          /\ UNCHANGED clientVars
    /\ UNCHANGED startupFrame

\* start: this.server.connect(transport).
ServerConnect ==
    /\ process.phase = "initialized"
    /\ process' = [process EXCEPT !.phase = "serving"]
    /\ UNCHANGED <<startupFrame, clientVars>>

NextStartup ==
    \/ MainValidateConfig \/ MainConstruct \/ ServerInitialize \/ ServerConnect
    \/ Next

SpecStartup == InitStartup /\ [][NextStartup]_vars

(***************************************************************************)
(* Properties of the trust scorer                                          *)
(***************************************************************************)
DecisionRank(d) ==
    CASE d = "DONT_RELY" -> 0
      [] d = "CAUTION" -> 1
      [] d = "PROCEED" -> 2

\* The decision the thresholds prescribe for a score counted in 1/(100 unit).
Prescribed(decision, score, unit, thresholds) ==
    /\ (decision = "PROCEED") <=> (score >= thresholds.proceed * unit)
    /\ (decision = "CAUTION") <=>
          (thresholds.caution * unit <= score /\ score < thresholds.proceed * unit)
    /\ (decision = "DONT_RELY") <=> (score < thresholds.caution * unit)

\* C12: with proceed > caution the decision is Proceed iff the composite score
\* is at or above the proceed threshold, Caution iff it lies between the
\* caution threshold (included) and the proceed threshold (excluded), DontRely
\* iff it is below the caution threshold; no lower score gets a higher
\* decision.  It holds of every score handed to determineThresholdDecision
\* and of the decision in every report of computeTrust.
C12_DecisionByThresholds ==
    /\ etl.pc = "decided" =>
          /\ Prescribed(etl.decision, etl.score, ScoreUnit, etl.thresholds)
          /\ \A s \in 0..etl.score :
                DecisionRank(determineThresholdDecision(s, ScoreUnit, etl.thresholds))
                  <= DecisionRank(etl.decision)
    /\ \A i \in 1..Len(etl.reports) :
          Prescribed(etl.reports[i].trust.thresholdDecision,
                     etl.reports[i].trust.compositeScore,
                     etl.reports[i].trust.unit, etl.thresholds)

\* A score exactly at the proceed threshold has been decided.
C12_Witness ==
    /\ etl.pc = "decided"
    /\ etl.score = etl.thresholds.proceed * ScoreUnit
    /\ etl.decision = "PROCEED"
    /\ etl.thresholds.caution > 0

\* C14: two computeTrust calls on the same instance with the same result and
\* thresholds return reports equal in every field, whenever they are made.
C14_IdenticalReports ==
    \A i \in 1..Len(etl.reports), j \in 1..Len(etl.reports) :
        etl.reports[i].result = etl.reports[j].result =>
            etl.reports[i].trust = etl.reports[j].trust

\* The scenario: ScenarioEvents events, each with time, raw text, source, host
\* and source type, a search id, no error, 40 ms.
Scenario(d) ==
    /\ Total(d.runs) = ScenarioEvents
    /\ \A k \in 1..Len(d.runs) :
          /\ requiredMissing(d.runs[k].event) = {}
          /\ commonMissing(d.runs[k].event) = {}
    /\ d.searchId # ""
    /\ d.error = ""
    /\ d.executionTimeMs = 40

\* Every event of the result is less than an hour old at the time at.
Young(d, at) == \A k \in 1..Len(d.runs) : at - d.runs[k].event.stamp < 1

C13_BadThresholdsNeverServe ==
    settings.trustThresholdProceed <= settings.trustThresholdCaution =>
        /\ process.phase \in {"main", "exited"}
        /\ ~process.client
        /\ process.etl = NotStarted.etl
        /\ \A p \in Procs : inv[p] = NoInvocation /\ outcome[p] = NoOutcome

\* Equal thresholds: validateConfig has thrown and the process has exited.
C13_Witness ==
    /\ settings.trustThresholdProceed = settings.trustThresholdCaution
    /\ settings.credentials # "none"
    /\ process.phase = "exited"

(***************************************************************************)
(* Properties of the scanner                                               *)
(***************************************************************************)
SeverityRank(s) ==
    CASE s = "none" -> 0 [] s = "low" -> 1 [] s = "medium" -> 2
      [] s = "high" -> 3 [] s = "critical" -> 4

\* The greatest severity in a list of issues, "none" for the empty list.
MaxSeverity(issues) ==
    IF Len(issues) = 0 THEN "none"
    ELSE CHOOSE s \in {issues[i].severity : i \in 1..Len(issues)} :
           \A i \in 1..Len(issues) : SeverityRank(issues[i].severity) <= SeverityRank(s)

\* C3: assertQuerySafe picks its failure in strict priority order: nothing
\* iff the scan found no issue; the read-only failure whenever a read-only
\* issue matched, whatever else matched; else the injection failure iff a
\* critical issue matched; else the generic failure, naming every issue.
C3_AssertPriority ==
    scan.pc = "assertQuerySafe" =>
        LET issues == scan.verdict.issues
            ro == \E i \in 1..Len(issues) : issues[i].type = "read_only_violation"
            crit == \E i \in 1..Len(issues) : issues[i].severity = "critical"
        IN /\ (scan.error = NoError) <=> (Len(issues) = 0)
           /\ ro <=> (scan.error.code = "READ_ONLY_VIOLATION")
           /\ (~ro /\ crit) <=> (scan.error.code = "INJECTION_DETECTED")
           /\ (Len(issues) > 0 /\ ~ro /\ ~crit) <=>
                 (scan.error.code = "SECURITY_ERROR")
           /\ scan.error.code = "SECURITY_ERROR" =>
                 scan.error.detail = Descriptions(issues)

\* C3 witness: a text with a read-only issue and a critical injection issue
\* ("|delete|python"), for which the read-only failure was raised.
C3_Witness ==
    /\ scan.pc = "assertQuerySafe"
    /\ scan.error.code = "READ_ONLY_VIOLATION"
    /\ \E i \in 1..Len(scan.verdict.issues) :
          /\ scan.verdict.issues[i].type = "injection"
          /\ scan.verdict.issues[i].severity = "critical"

\* C4: every verdict of scanQuery and of scanParameters has safe iff no
\* issue, risk none iff no issue, and otherwise risk the greatest severity
\* among its issues.
C4_VerdictInvariant ==
    scan.pc \in {"scanQuery", "scanParameters"} =>
        LET v == scan.verdict
        IN /\ v.safe <=> (Len(v.issues) = 0)
           /\ (v.risk = "none") <=> (Len(v.issues) = 0)
           /\ v.risk = MaxSeverity(v.issues)

\* C4 witness: a parameter scan whose issues are of mixed severities, the
\* greatest of them critical and found in an array element.
C4_Witness ==
    /\ scan.pc = "scanParameters"
    /\ scan.verdict.risk = "critical"
    /\ \E i \in 1..Len(scan.verdict.issues) : scan.verdict.issues[i].severity = "high"
    /\ \E i \in 1..Len(scan.verdict.issues) : scan.verdict.issues[i].severity = "medium"
    /\ \E i \in 1..Len(scan.verdict.issues) :
          scan.verdict.issues[i].elem /\ scan.verdict.issues[i].severity = "critical"

(***************************************************************************)
(* The client on a slow network: one safe search or one saved search,      *)
(* under every choice of settings; time also passes while a request is     *)
(* in flight and before the call arrives.                                  *)
(***************************************************************************)
InitClient ==
    /\ scan = ScanOff
    /\ sink = SinkOff
    /\ etl = EtlOff
    /\ settings \in SettingsChoices
    /\ workload = [requests |-> {Search(<<"error">>, Absent, Absent, 1),
                                 Request("splunk_run_saved_search",
                                         [NoArgs EXCEPT !.name = <<"daily">>])},
                   concurrency |-> 1, calls |-> MaxCalls, slowNetwork |-> TRUE]
    /\ Started(settings.credentials)
    /\ Quiet

NextClient ==
    \/ Tick
    \/ \E p \in Procs :
         \/ Invoke(p)
         \/ executeSearch(p) \/ executeRunSavedSearch(p) \/ ToolResult(p)
         \/ SearchStart(p) \/ SearchCreate(p) \/ CreateResponse(p)
         \/ RunSavedSearchStart(p) \/ RunSavedSearchDispatch(p) \/ DispatchResponse(p)
         \/ SearchResults(p) \/ ResultsResponse(p) \/ SearchFinal(p)
         \/ WaitForJobStart(p) \/ WaitForJobInit(p) \/ WaitForJobLoop(p)
         \/ WaitForJobCheck(p) \/ SleepDone(p) \/ CancelResponse(p)
         \/ GetJobStatusStart(p) \/ GetJobStatusSend(p) \/ StatusResponse(p)
         \/ GetClient(p) \/ GetClientExpiry(p) \/ GetClientReturn(p)
         \/ Initialize(p) \/ LoginResponse(p)

SpecClient == InitClient /\ [][NextClient]_vars

\* What the event loop and the backend do for a search once it was called:
\* every continuation that is ready runs, every request is answered or
\* fails, every timer fires.
SearchStep(p) ==
    \/ executeSearch(p) \/ ToolResult(p)
    \/ SearchStart(p) \/ SearchCreate(p) \/ CreateResponse(p)
    \/ SearchResults(p) \/ ResultsResponse(p) \/ SearchFinal(p)
    \/ WaitForJobStart(p) \/ WaitForJobInit(p) \/ WaitForJobLoop(p)
    \/ WaitForJobCheck(p) \/ SleepDone(p) \/ CancelResponse(p)
    \/ GetJobStatusStart(p) \/ GetJobStatusSend(p) \/ StatusResponse(p)
    \/ GetClient(p) \/ GetClientExpiry(p) \/ GetClientReturn(p)
    \/ Initialize(p) \/ LoginResponse(p)

\* One safe search with a username and a password on a slow network, under
\* every search timeout.
InitWait ==
    /\ scan = ScanOff
    /\ sink = SinkOff
    /\ etl = EtlOff
    /\ settings \in {Settings("session", t, 1) : t \in 0..MaxSearchTimeout}
    /\ workload = [requests |-> {Search(<<"error">>, Absent, Absent, 1)},
                   concurrency |-> 1, calls |-> MaxCalls, slowNetwork |-> TRUE]
    /\ Started("session")
    /\ Quiet

NextWait == Tick \/ \E p \in Procs : Invoke(p) \/ SearchStep(p)

\* Time passes and every started step is carried on; when the agent calls is
\* left open.
SpecWait ==
    /\ InitWait
    /\ [][NextWait]_vars
    /\ WF_vars(Tick)
    /\ \A p \in Procs : WF_vars(SearchStep(p))

(***************************************************************************)
(* Two tool calls at once on the shared client, with a username and a      *)
(* password, on a slow network                                             *)
(***************************************************************************)
InitConcurrent ==
    /\ scan = ScanOff
    /\ sink = SinkOff
    /\ etl = EtlOff
    /\ settings = Settings("session", 0, 1)
    /\ workload = [requests |-> {Search(<<"error">>, Absent, Absent, 1)},
                   concurrency |-> MaxConcurrent, calls |-> MaxConcurrent,
                   slowNetwork |-> TRUE]
    /\ Started("session")
    /\ Quiet

\* With a search timeout of 0 waitForJob never polls: the steps of the poll
\* and of the results are left out.
NextConcurrent ==
    \/ Tick
    \/ \E p \in Procs :
         \/ Invoke(p)
         \/ executeSearch(p)
         \/ SearchStart(p) \/ SearchCreate(p) \/ CreateResponse(p)
         \/ WaitForJobStart(p) \/ WaitForJobInit(p) \/ WaitForJobLoop(p)
         \/ CancelResponse(p)
         \/ GetClient(p) \/ GetClientExpiry(p) \/ GetClientReturn(p)
         \/ Initialize(p) \/ LoginResponse(p)

SpecConcurrent == InitConcurrent /\ [][NextConcurrent]_vars

(***************************************************************************)
(* Properties of the tools                                                 *)
(***************************************************************************)

\* The positions of the log of p that hold a request of one of the kinds.
RequestsAt(p, kinds) ==
    {i \in 1..Len(log[p]) : log[p][i].ev = "req" /\ log[p][i].what \in kinds}

BackendKinds == {"login", "create", "dispatch", "status", "results", "cancel"}

\* The executor of the tool p was called with has run.
Executed(p) == inv[p].tool # "none" /\ Top(p) # "tool"

\* C1: a splunk_search call that passes validation and whose index-prefixed
\* query the scanner finds unsafe ends with the failure assertQuerySafe
\* chooses (the read-only failure for "| delete") and sends no request to the
\* backend; a call that fails validation is never scanned; and every job
\* creation follows a scan of the submitted query that found it safe.
C1_UnsafeSearchNeverSubmitted ==
    \A p \in Procs :
        (Executed(p) /\ inv[p].tool = "splunk_search") =>
            LET a == inv[p].args
                verdict == scanQuery(fullQuery(a))
            IN /\ SearchInvalid(a) # NoError =>
                    /\ log[p] = <<>>
                    /\ outcome[p].error.code = "VALIDATION_ERROR"
               /\ (SearchInvalid(a) = NoError /\ ~verdict.safe) =>
                    /\ outcome[p].status = "error"
                    /\ outcome[p].error = ThrowFor(verdict)
                    /\ outcome[p].error.isSecurityError
                    /\ RequestsAt(p, BackendKinds) = {}
                    /\ log[p] = <<ScanEntry(fullQuery(a), FALSE)>>
               /\ (SearchInvalid(a) = NoError /\ a.query = <<"|", " ", "delete">>) =>
                    outcome[p].error.code = "READ_ONLY_VIOLATION"
               /\ \A i \in RequestsAt(p, {"create"}) :
                    /\ log[p][1] = ScanEntry(log[p][i].q, TRUE)
                    /\ log[p][i].q = fullQuery(a)

\* C1 witness: a search whose query is safe as given and unsafe once the
\* index is put before it ("index=ignore previous"), refused by the scan.
C1_Witness ==
    \E p \in Procs :
        /\ inv[p].tool = "splunk_search"
        /\ inv[p].args.index = <<"ignore">>
        /\ scanQuery(inv[p].args.query).safe
        /\ outcome[p].error.code = "SECURITY_ERROR"
        /\ log[p] = <<ScanEntry(<<"index=", "ignore", " ", "previous">>, FALSE)>>

\* C2: every job creation and every saved-search dispatch an invocation sends
\* follows, in that invocation, a scan that found the query safe.
C2_EveryQueryScanned ==
    \A p \in Procs :
        \A i \in RequestsAt(p, {"create", "dispatch"}) :
            \E j \in 1..(i - 1) : log[p][j].ev = "scan" /\ log[p][j].ok

\* The elements of correlation_fields the scanner flags.
FlaggedFields(a) ==
    {i \in 1..Len(CorrelationFields(a)) : ~scanQuery(CorrelationFields(a)[i]).safe}

\* C5: each string argument and each element of a string-array argument is
\* scanned, and a flagged one stops the invocation before any request: a
\* splunk_correlate call with a flagged element in correlation_fields sends
\* no request to the backend.
C5_FlaggedFieldNeverSubmitted ==
    \A p \in Procs :
        (inv[p].tool = "splunk_correlate" /\ FlaggedFields(inv[p].args) # {}) =>
            RequestsAt(p, BackendKinds) = {}

\* C7: every SearchResult of search and runSavedSearch, and the metadata the
\* tools derive from it, has truncated exactly when the backend's total is
\* greater than the number of events returned.
C7_TruncatedIffMoreThanReturned ==
    \A p \in Procs :
        /\ loc[p].result.truncated
              = (loc[p].result.totalCount > Len(loc[p].result.events))
        /\ outcome[p].result.truncated
              = (outcome[p].result.totalCount > outcome[p].returnedCount)

\* C8: no request is sent carrying a session key whose window had elapsed
\* when the request was sent.
C8_NoRequestWithElapsedSession ==
    \A p \in Procs : \A i \in RequestsAt(p, BackendKinds) : ~log[p][i].stale

\* The positions of the log of p that hold a 401 answer to a request of kind.
DeniedAt(p, kind) ==
    {i \in 1..Len(log[p]) :
        log[p][i].ev = "fail" /\ log[p][i].what = kind /\ log[p][i].q = <<"401">>}

\* C9: an invocation ends with the credential failure (401) of a request
\* only after that request was denied, a login was then sent, and the
\* request, sent again, was denied again.
C9_DeniedRequestRetriedOnce ==
    \A p \in Procs : \A kind \in {"create", "dispatch", "status", "results"} :
        (stack[p] = <<>> /\ outcome[p].error = AxiosError("401")
            /\ DeniedAt(p, kind) # {}) =>
            \E i \in DeniedAt(p, kind) : \E j \in RequestsAt(p, {"login"}) :
                \E k \in DeniedAt(p, kind) : i < j /\ j < k

\* The number of cancel requests p has sent.
Cancels(p) == Cardinality(RequestsAt(p, {"cancel"}))

\* C6, for one step of p.  Leaving the loop test of waitForJob: past the
\* timeout the cancel request is sent, and before it none is.  Leaving the
\* wait for the cancel's answer: the invocation ends with the retryable
\* timeout failure whatever the answer was, and sends nothing more.  No other
\* step sends a cancel.
C6_Step(p) ==
    /\ (Top(p) = "wfj_loop" /\ stack'[p] # stack[p]) =>
          IF now - loc[p].wfjStart >= TimeoutTicks(loc[p].timeout)
          THEN /\ Head(stack'[p]) = "cancel_wait"
               /\ Cancels(p)' = 1
               /\ log'[p][Len(log'[p])].what = "cancel"
          ELSE Cancels(p)' = 0
    /\ (Top(p) = "cancel_wait" /\ stack'[p] # stack[p]) =>
          /\ stack'[p] = <<>>
          /\ outcome'[p].status = "error"
          /\ outcome'[p].error.name = "SplunkAPIError"
          /\ outcome'[p].error.isRetryable
          /\ outcome'[p].error.detail = <<"Search job timed out">>
          /\ RequestsAt(p, BackendKinds)' = RequestsAt(p, BackendKinds)
    /\ Cancels(p)' > Cancels(p) => Top(p) = "wfj_loop"

\* C6: on timeout waitForJob sends exactly one cancel and then fails with
\* the retryable timeout failure, also when the cancel itself fails.
C6_TimeoutCancelsOnce == [][\A p \in Procs : C6_Step(p)]_vars

\* C6 witness: a job polled and not reported done, the timeout reached, the
\* cancel refused by the backend, and the retryable timeout failure returned.
C6_Witness ==
    \E p \in Procs :
        /\ stack[p] = <<>>
        /\ outcome[p].error = SplunkAPIError("Search job timed out", TRUE)
        /\ Cancels(p) = 1
        /\ RequestsAt(p, {"status"}) # {}
        /\ log[p][Len(log[p])] = FailEntry("cancel", "500")

\* C10: at most one login request is in flight at a time.
C10_SingleFlightRefresh ==
    Cardinality({p \in Procs : Top(p) = "login_wait"}) <= 1

(***************************************************************************)
(* Properties of the handler                                               *)
(***************************************************************************)
\* The invocation p has ended: the handler has answered.
Ended(p) == inv[p].tool # "none" /\ stack[p] = <<>>

\* C11: every successful answer of a query-shaped tool holds a trust report
\* computed from the result of the tool.
C11_SuccessCarriesTrust ==
    \A p \in Procs :
        (Ended(p) /\ outcome[p].status = "ok" /\ inv[p].tool \in TrustableTools) =>
            /\ outcome[p].response.kind = "result"
            /\ \E t \in 0..now :
                  outcome[p].response.trust
                    = computeTrustForResult(outcome[p].result, process.etl, t)

\* The errors that differ from err in one field only.
OtherCode(err) ==
    {[err EXCEPT !.code = c] :
        c \in {"SECURITY_ERROR", "INJECTION_DETECTED", "READ_ONLY_VIOLATION",
               "VALIDATION_ERROR", "AUTH_ERROR", "SPLUNK_API_ERROR"} \ {err.code}}
OtherMessage(err) == {[err EXCEPT !.detail = Append(@, "x")]}
OtherSecurity(err) == {[err EXCEPT !.isSecurityError = ~@]}
OtherRetryable(err) == {[err EXCEPT !.isRetryable = ~@]}

\* C15: what the handler answers for a failure preserves the code, the
\* message, isSecurityError and isRetryable of the failure: an error that
\* differs in one of them is answered differently.
C15_ErrorFieldsPreserved ==
    \A p \in Procs :
        (Ended(p) /\ outcome[p].status = "error" /\ isSplunkMCPError(outcome[p].error)) =>
            \A other \in OtherCode(outcome[p].error) \cup OtherMessage(outcome[p].error)
                           \cup OtherSecurity(outcome[p].error)
                           \cup OtherRetryable(outcome[p].error) :
                toMcpError(other) # outcome[p].response.error

\* The scans of the invocation p that failed.
FailedScans(p) == {i \in 1..Len(log[p]) : log[p][i].ev = "scan" /\ ~log[p][i].ok}

\* C16: with audit logging on, an invocation that fails with an error of the
\* security family has recorded a security-violation event that carries the
\* risk level and the issue descriptions of the scan that blocked it: a risk
\* other than none and at least one issue.
C16_SecurityFailureAudited ==
    \A p \in Procs :
        ( /\ settings.enableAuditLog
          /\ Ended(p)
          /\ outcome[p].status = "error"
          /\ isSecurityError(outcome[p].error) ) =>
            \E i \in 1..Len(outcome[p].audit), k \in FailedScans(p) :
                /\ outcome[p].audit[i].type = "SECURITY_VIOLATION"
                /\ outcome[p].audit[i].toolName = inv[p].tool
                /\ outcome[p].audit[i].riskLevel \notin {NoContext, "none"}
                /\ outcome[p].audit[i].issues # <<>>
                /\ outcome[p].audit[i].riskLevel = scanQuery(log[p][k].q).risk
                /\ outcome[p].audit[i].issues = Descriptions(scanQuery(log[p][k].q).issues)

\* The outcome events of an answer: tool-success for a result, tool-error or
\* security-violation for an error.
OutcomeTypes(status) ==
    IF status = "ok" THEN {"TOOL_SUCCESS"} ELSE {"TOOL_ERROR", "SECURITY_VIOLATION"}

\* C18: with audit logging on, the first event of every invocation is its
\* tool-called event, recorded before the tool runs; nothing else is recorded
\* until the invocation ends, and when it has ended at least one outcome event
\* for the same tool follows, of the kind of the answer.
C18_AuditTrail ==
    \A p \in Procs :
        (settings.enableAuditLog /\ inv[p].tool # "none") =>
            /\ Len(outcome[p].audit) >= 1
            /\ outcome[p].audit[1] = auditToolCall(inv[p].tool)
            /\ ~Ended(p) => Len(outcome[p].audit) = 1
            /\ Ended(p) =>
                  /\ Len(outcome[p].audit) >= 2
                  /\ \A i \in 2..Len(outcome[p].audit) :
                        /\ outcome[p].audit[i].toolName = inv[p].tool
                        /\ outcome[p].audit[i].type \in OutcomeTypes(outcome[p].status)

\* A call of an unknown tool has ended with its two events.
C18_Witness ==
    /\ settings.enableAuditLog
    /\ \E p \in Procs :
          /\ Ended(p)
          /\ ~toolExists(inv[p].tool)
          /\ outcome[p].audit
               = <<auditToolCall(inv[p].tool),
                   auditToolError(inv[p].tool,
                                  McpErrorThrown("MethodNotFound", "Unknown tool"), FALSE)>>

\* The requests of the invocation p that submit a job.
Submissions(p) == RequestsAt(p, {"create", "dispatch"})

\* C17: every time bound sent with a job creation or a saved-search dispatch
\* is of a form isValidTimeSpec accepts.
C17_TimeBoundsAccepted ==
    \A p \in Procs :
        \A i \in Submissions(p) :
            /\ log[p][i].earliest # <<>> => isValidTimeSpec(log[p][i].earliest)
            /\ log[p][i].latest # <<>> => isValidTimeSpec(log[p][i].latest)

\* The requests of the invocation p about its job and the statuses it
\* received, in order; the logins of getClient are left out.
JobTrace(p) ==
    SelectSeq(log[p], LAMBDA e :
        \/ e.ev = "req" /\ e.what \in {"create", "dispatch", "status", "results", "cancel"}
        \/ e.ev = "resp")

IsRequest(e, what) == e.ev = "req" /\ e.what = what
\* A status received that reports the job done and not failed.
IsDoneStatus(e) == e.ev = "resp" /\ e.q = <<"isDone">>
IsStatus(e) == e.ev = "resp"

\* search has returned a SearchResult to the tool of p.
SearchReturned(p) == inv[p].tool = "splunk_search" /\ loc[p].result # NoResult

\* C20: a search that returns a SearchResult has sent one job creation, then
\* status polls of which the last and only the last was answered done and not
\* failed, then one results request, then one status request that was
\* answered; and no results request is sent unless the status received just
\* before it reported the job done and not failed.
C20_SearchRequestOrder ==
    \A p \in Procs :
        LET t == JobTrace(p)
            n == Len(t)
        IN /\ SearchReturned(p) =>
                /\ n >= 6 /\ n % 2 = 0
                /\ IsRequest(t[1], "create")
                /\ \A k \in 2..(n - 3) :
                      IF k % 2 = 0 THEN IsRequest(t[k], "status")
                      ELSE /\ IsStatus(t[k])
                           /\ IsDoneStatus(t[k]) <=> (k = n - 3)
                /\ IsRequest(t[n - 2], "results")
                /\ IsRequest(t[n - 1], "status")
                /\ IsStatus(t[n])
                /\ loc[p].result.totalCount = loc[p].status.resultCount
           /\ \A i \in 1..n :
                IsRequest(t[i], "results") => (i > 1 /\ IsDoneStatus(t[i - 1]))

\* C20 witness: a search returned its result after two polls, the first of
\* which found the job still running.
C20_Witness ==
    \E p \in Procs :
        /\ SearchReturned(p)
        /\ Len(JobTrace(p)) = 8
        /\ JobTrace(p)[3].q = <<>>

(***************************************************************************)
(* Properties of waitForJob                                                *)
(***************************************************************************)

\* A status received that reports the job done and failed.
IsFailedStatus(e) == e.ev = "resp" /\ e.q = <<"isDone", "isFailed">>

\* The invocation p ended with the failure of its job.
JobFailed(p) ==
    /\ Ended(p)
    /\ JobTrace(p) # <<>>
    /\ IsFailedStatus(JobTrace(p)[Len(JobTrace(p))])

\* The reason of a job failure is the texts joined: without its separators
\* it is the texts that are not empty, in order, and it has one separator
\* less than there are texts.
IsJoined(reason, texts) ==
    /\ SelectSeq(reason, LAMBDA c : c # "; ") = SelectSeq(texts, LAMBDA c : c # "")
    /\ Len(SelectSeq(reason, LAMBDA c : c = "; ")) = Max(Len(texts), 1) - 1

\* The failure of the job of p is the non-retryable backend failure whose
\* reason is the generic message if generic, and the texts joined otherwise.
FailedWith(p, generic) ==
    LET texts == ErrorTexts(loc[p].status.messages)
        e == outcome[p].error
    IN /\ outcome[p].status = "error"
       /\ e.name = "SplunkAPIError" /\ e.code = "SPLUNK_API_ERROR"
       /\ ~e.isRetryable /\ ~e.isSecurityError
       /\ Head(e.detail) = "Search job failed"
       /\ IF generic THEN Tail(e.detail) = <<"Unknown error">>
          ELSE IsJoined(Tail(e.detail), texts)

\* A done and failed status is the last thing the invocation hears or asks of
\* its job: no further poll, no results request, no cancel.
StopsAtFailedStatus(p) ==
    \A i \in 1..Len(JobTrace(p)) :
        IsFailedStatus(JobTrace(p)[i]) => i = Len(JobTrace(p))

\* C21 as stated: a poll that reports the job done and failed ends the wait
\* with a non-retryable failure whose reason is the ERROR and FATAL texts
\* joined in order, the generic message exactly when the job has no such
\* message; nothing more is asked of the job.
C21_FailedJobReasonAsStated ==
    \A p \in Procs :
        /\ StopsAtFailedStatus(p)
        /\ JobFailed(p) =>
              FailedWith(p, ErrorTexts(loc[p].status.messages) = <<>>)

\* C21 amended: as above, with the generic message exactly when the joined
\* texts are empty: the job has no ERROR or FATAL message, or it has one and
\* its text is empty.
C21_FailedJobReason ==
    \A p \in Procs :
        /\ StopsAtFailedStatus(p)
        /\ JobFailed(p) =>
              FailedWith(p, ErrorTexts(loc[p].status.messages) \in {<<>>, <<"">>})

\* C21 witness: a job failed with a warning, an error and a fatal message;
\* the failure names the error and the fatal message.
C21_Witness ==
    \E p \in Procs :
        /\ JobFailed(p)
        /\ Len(loc[p].status.messages) = 3
        /\ outcome[p].error.detail = <<"Search job failed", "e1", "; ", "f1">>

\* The invocation p takes a step of its own.
Steps(p) == stack'[p] # stack[p]

\* A poll in flight is waited for: the step that ends it is its answer or its
\* failure, never the cancel of the timed-out path.
PollRunsToCompletion(p) ==
    (Top(p) = "status_wait" /\ Steps(p)) =>
        /\ stack'[p] # <<>> => Head(stack'[p]) # "cancel_wait"
        /\ RequestsAt(p, {"cancel"}) = {}
        /\ log'[p] # log[p] => log'[p][Len(log'[p])].ev \in {"resp", "fail"}

\* After a poll answered done, waitForJob returns to its caller or throws the
\* failure of the job, whatever the clock says; it sends nothing.
DoneBeatsDeadline(p) ==
    (Top(p) = "wfj_check" /\ loc[p].status.isDone /\ Steps(p)) =>
        /\ log'[p] = log[p]
        /\ IF loc[p].status.isFailed
           THEN /\ stack'[p] = <<>>
                /\ outcome'[p].error = JobFailedError(errorMsg(loc[p].status.messages))
           ELSE /\ stack'[p] = Tail(stack[p])
                /\ outcome'[p] = outcome[p]

C22_Step == \A p \in Procs : PollRunsToCompletion(p) /\ DoneBeatsDeadline(p)

\* C22: the timeout of waitForJob is tested between polls only: a poll that
\* was started is waited for, and when it answers done waitForJob returns (or
\* throws the job's failure) even if the deadline passed meanwhile; no cancel
\* is sent then.
C22_TimeoutBetweenPolls == [][C22_Step]_vars

\* C22 witness: waitForJob has just returned to search, with the deadline
\* passed: the answer that the job was done came after it, to a poll started
\* before it, and no cancel was sent.
C22_Witness ==
    \E p \in Procs :
        /\ Top(p) = "search_results"
        /\ TimedOut(p)
        /\ IsDoneStatus(JobTrace(p)[Len(JobTrace(p))])
        /\ RequestsAt(p, {"cancel"}) = {}

(***************************************************************************)
(* Properties of parseEvents                                               *)
(***************************************************************************)

\* C23: every event parseEvents yields carries a time and a raw text: a
\* record that lacks either is dropped.
C23_EventsCarryTimeAndRaw ==
    \A p \in Procs :
        \A i \in 1..Len(loc[p].events) :
            loc[p].events[i].time # <<>> /\ loc[p].events[i].raw # <<>>

(***************************************************************************)
(* Properties of the dimensions                                            *)
(***************************************************************************)

\* The result the i-th report of the scorer was computed from.
Scored(i) == SplunkSearchResult(etl.reports[i].result)

\* C25: integrity is 1.0, minus 0.5 if the result carries an error, minus 0.3
\* times the fraction of events with an empty raw text, plus 0.05 if the
\* execution took less than 100 ms and the result carries no error, clamped
\* to [0,1]; in units of 1/(100 n) for a result of n events.
C25_IntegrityAsStated ==
    \A i \in 1..Len(etl.reports) :
        LET r == Scored(i)
        IN etl.reports[i].trust.dimensions.integrity =
              Clamp(r, One(r)
                         - (IF r.error # "" THEN 5 * Tenth(r) ELSE 0)
                         - 30 * invalidCount(r)
                         + (IF r.executionTimeMs < 100 /\ r.error = ""
                            THEN 5 * Events(r) ELSE 0))

\* C26: trackRecord is 0.7, plus 0.2 if a search id is present and there is
\* no error, plus 0.1 if executionTimeMs is under 5000, 0 included, capped at
\* 1.0; in units of 1/(100 n) for a result of n events.
C26_TrackRecordAsStated ==
    \A i \in 1..Len(etl.reports) :
        LET r == Scored(i)
        IN etl.reports[i].trust.dimensions.trackRecord =
              Min(One(r), 7 * Tenth(r)
                            + (IF r.searchId # "" /\ r.error = "" THEN 2 * Tenth(r) ELSE 0)
                            + (IF r.executionTimeMs < 5000 THEN Tenth(r) ELSE 0))

(***************************************************************************)
(* Termination and outcomes of waitForJob                                  *)
(***************************************************************************)

WaitForJobLabels ==
    {"wfj_start", "wfj_init", "wfj_loop", "wfj_check", "wfj_sleep", "cancel_wait"}

\* A call stack holds a frame of waitForJob.
InWaitForJob(s) == \E i \in 1..Len(s) : s[i] \in WaitForJobLabels
\* A call stack holds a getJobStatus called by waitForJob.
InPoll(s) == \E i \in 1..Len(s) : s[i] = "wfj_check"

\* The step ends the waitForJob call of p.
WaitEnds(p) == InWaitForJob(stack[p]) /\ ~InWaitForJob(stack'[p])

IsTimedOutError(e) ==
    /\ e.name = "SplunkAPIError" /\ e.isRetryable
    /\ e.detail = <<"Search job timed out">>

IsJobFailedError(e) ==
    /\ e.name = "SplunkAPIError" /\ ~e.isRetryable
    /\ Head(e.detail) = "Search job failed"

\* The four ways waitForJob ends: it returns after a status done and not
\* failed; it throws the failure of the job; it throws the timeout after the
\* cancel; a status poll throws.
EndsAsListed(p) ==
    \/ /\ stack'[p] = Tail(stack[p]) /\ Top(p) = "wfj_check"
       /\ loc[p].status.isDone /\ ~loc[p].status.isFailed
       /\ outcome'[p] = outcome[p]
    \/ /\ stack'[p] = <<>> /\ Top(p) = "wfj_check"
       /\ loc[p].status.isDone /\ loc[p].status.isFailed
       /\ IsJobFailedError(outcome'[p].error)
    \/ /\ stack'[p] = <<>> /\ Top(p) = "cancel_wait"
       /\ IsTimedOutError(outcome'[p].error)
    \/ /\ stack'[p] = <<>> /\ InPoll(stack[p])
       /\ outcome'[p].status = "error"
       /\ ~IsTimedOutError(outcome'[p].error) /\ ~IsJobFailedError(outcome'[p].error)

\* The fifth way: the getClient call waitForJob makes before its first poll
\* finds the session expired and the new login fails.
EndsInOwnGetClient(p) ==
    /\ stack'[p] = <<>> /\ Top(p) = "login_wait" /\ ~InPoll(stack[p])
    /\ outcome'[p].error.name = "AuthenticationError"
    /\ ~outcome'[p].error.isRetryable

\* The status requests of the waitForJob call of p: those sent before the
\* results request.
WaitPolls(p) ==
    {i \in RequestsAt(p, {"status"}) : \A j \in RequestsAt(p, {"results"}) : i < j}

\* Within waitForJob no status is asked for after one that reported the job
\* done, and the polls are at most the timeout over the poll interval, plus
\* one.
PollsBounded(p) ==
    LET t == JobTrace(p)
    IN /\ \A i \in 1..(Len(t) - 1) :
             (IsStatus(t[i]) /\ t[i].q # <<>>) => ~IsRequest(t[i + 1], "status")
       /\ Cardinality(WaitPolls(p)) <= TimeoutTicks(loc[p].timeout) \div PollTicks + 1

\* A waitForJob call under way comes to an end, within the time the model
\* covers.
WaitTerminates(p) ==
    InWaitForJob(stack[p]) ~> (~InWaitForJob(stack[p]) \/ now = MaxTime)

StatusRequestFailed(p) ==
    \E k \in 1..Len(log[p]) : log[p][k].ev = "fail" /\ log[p][k].what = "status"

\* The invocation p ended with the failure of a status poll: an answer
\* without content, or an HTTP error.
PollFailed(p) ==
    /\ Ended(p)
    /\ \/ outcome[p].error = SplunkAPIError("Invalid job status response", FALSE)
       \/ StatusRequestFailed(p)

\* C28: a cancel request is sent only past the timeout of waitForJob, after
\* the job creation or after a status that reported the job not done: never
\* after a status that reported the job done or failed, and never after a
\* status poll that failed; an invocation a failed poll ended ends with the
\* error of the poll, has sent no cancel, and its job was not cancelled.
C28_CancelOnlyOnTimeout ==
    \A p \in Procs :
        LET t == JobTrace(p)
        IN /\ \A i \in 1..Len(t) :
                IsRequest(t[i], "cancel") =>
                    /\ now - loc[p].wfjStart >= TimeoutTicks(loc[p].timeout)
                    /\ i > 1
                    /\ \/ IsRequest(t[i - 1], "create")
                       \/ IsRequest(t[i - 1], "dispatch")
                       \/ IsStatus(t[i - 1])
                    /\ \A k \in 1..(i - 1) : IsStatus(t[k]) => t[k].q = <<>>
                    /\ ~StatusRequestFailed(p)
           /\ PollFailed(p) =>
                /\ Cancels(p) = 0
                /\ job[p].state # "cancelled"
                /\ outcome[p].status = "error"
                /\ \/ outcome[p].error
                        = SplunkAPIError("Invalid job status response", FALSE)
                   \/ \E r \in HttpFailures :
                        /\ outcome[p].error = AxiosError(r)
                        /\ log[p][Len(log[p])] = FailEntry("status", r)

\* C28 witness: a status request of waitForJob answered with an HTTP error
\* after the timeout had passed: the invocation ends with that error, no
\* cancel was sent and the job is still running.
C28_Witness ==
    \E p \in Procs :
        /\ Ended(p)
        /\ log[p][Len(log[p])] = FailEntry("status", "500")
        /\ outcome[p].error = AxiosError("500")
        /\ now - loc[p].wfjStart >= TimeoutTicks(loc[p].timeout)
        /\ Cancels(p) = 0
        /\ job[p].state = "running"
        /\ RequestsAt(p, {"results"}) = {}

(***************************************************************************)
(* logging/audit.ts: the audit buffer, called directly                     *)
(***************************************************************************)
MAX_BUFFER_SIZE == 100
MaxAuditCalls == 4

\* AuditEventType: two types logged at once and two that are buffered.
AuditEventTypes == {"tool_called", "tool_error", "security_violation", "auth_failure"}

\* fullEvent; seq stands for its timestamp: the place of the call among the
\* calls of logAuditEvent.
FullEvent(type, seq) == [type |-> type, seq |-> seq]

\* The events a burst of n tool calls leaves in the buffer.
Burst(n) == [i \in 1..n |-> FullEvent("tool_called", i)]

\* A plausible slip: only security violations logged at once.
isImportantSecurityOnly(type) == type = "security_violation"

\* Log immediately for important events.
isImportant(type) == type \in {"security_violation", "auth_failure"}

\* flushAuditLog: the timer is cleared, every buffered event is written to
\* the logger in order, the buffer is emptied.
flushAuditLog(s) ==
    [s EXCEPT !.flushTimer = FALSE,
              !.written = @ \o s.auditBuffer,
              !.auditBuffer = <<>>]

\* logAuditEvent, with audit logging on: the event is pushed; it is flushed
\* at once when it is important or the buffer is full; otherwise the flush
\* is scheduled unless it already is.
pushAuditEvent(s, type) ==
    LET pushed == [s EXCEPT !.auditBuffer = Append(@, FullEvent(type, s.recorded + 1)),
                            !.recorded = @ + 1]
    IN IF isImportant(type) THEN flushAuditLog(pushed)
       ELSE IF Len(pushed.auditBuffer) >= MAX_BUFFER_SIZE THEN flushAuditLog(pushed)
       ELSE [pushed EXCEPT !.flushTimer = TRUE]

auditFrame == <<scan, etl, process, serverVars>>

\* A call of logAuditEvent; nothing happens with audit logging off.
DoLogAuditEvent ==
    /\ sink.phase = "running"
    /\ sink.left > 0
    /\ \E type \in AuditEventTypes :
         sink' = [(IF settings.enableAuditLog THEN pushAuditEvent(sink, type) ELSE sink)
                    EXCEPT !.left = @ - 1, !.last = "logAuditEvent"]
    /\ UNCHANGED auditFrame

\* The timer of logAuditEvent fires and calls flushAuditLog.
FlushTimerFires ==
    /\ sink.phase = "running"
    /\ sink.flushTimer
    /\ sink' = [flushAuditLog(sink) EXCEPT !.last = "flushAuditLog"]
    /\ UNCHANGED auditFrame

\* gracefulShutdown: the audit logger is flushed and the process exits.
GracefulShutdown ==
    /\ sink.phase = "running"
    /\ sink' = [flushAuditLog(sink) EXCEPT !.last = "flushAuditLog", !.phase = "exited"]
    /\ UNCHANGED auditFrame

\* The module when the calls begin: nothing recorded yet, or the events of a
\* burst of tool calls buffered within the last five seconds.
InitAudit ==
    /\ scan = ScanOff
    /\ etl = EtlOff
    /\ settings \in {[Settings("token", 0, 1000) EXCEPT !.enableAuditLog = b] :
                       b \in BOOLEAN}
    /\ sink \in {SinkIdle(IF settings.enableAuditLog THEN Burst(n) ELSE <<>>, MaxAuditCalls) :
                   n \in {0, MAX_BUFFER_SIZE - 2}}
    /\ workload = [requests |-> {}, concurrency |-> 0, calls |-> 0, slowNetwork |-> FALSE]
    /\ Started("token")
    /\ Quiet

NextAudit == DoLogAuditEvent \/ FlushTimerFires \/ GracefulShutdown

\* A timer that is pending fires.
SpecAudit == InitAudit /\ [][NextAudit]_vars /\ WF_vars(FlushTimerFires)

(***************************************************************************)
(* Properties of the audit buffer                                          *)
(***************************************************************************)

\* Between calls, with audit logging on: a buffer that is not empty has its
\* flush scheduled, holds fewer events than the limit and none of the types
\* logged at once; every event recorded so far is written or buffered, once,
\* in the order of the calls.
BufferInOrder ==
    settings.enableAuditLog =>
        LET all == sink.written \o sink.auditBuffer
        IN /\ sink.auditBuffer # <<>> => sink.flushTimer
           /\ Len(sink.auditBuffer) < MAX_BUFFER_SIZE
           /\ \A i \in 1..Len(sink.auditBuffer) :
                sink.auditBuffer[i].type \notin {"security_violation", "auth_failure"}
           /\ Len(all) = sink.recorded
           /\ \A i \in 1..Len(all) : all[i].seq = i

\* C30: after every call of logAuditEvent and of flushAuditLog the buffer is
\* as BufferInOrder says, and a buffer that is not empty is emptied later
\* on: with the order kept, each buffered event is then written exactly once.
C30_BufferFlushed ==
    /\ []BufferInOrder
    /\ (sink.auditBuffer # <<>>) ~> (sink.auditBuffer = <<>>)

\* C30 witness: the hundredth event was flushed with the ninety-nine before
\* it, and the next one waits in the buffer for the timer.
C30_Witness ==
    /\ settings.enableAuditLog
    /\ sink.last = "logAuditEvent"
    /\ Len(sink.written) = MAX_BUFFER_SIZE
    /\ Len(sink.auditBuffer) = 1
    /\ sink.flushTimer

(***************************************************************************)
(* Properties of the shared client                                         *)
(***************************************************************************)

\* The stored client carries the key of the stored authentication result
\* (both are missing before the first login).
ClientMatchesAuth == transport.key = auth.key /\ transport.exp = auth.exp

\* One step of p.  A step that replaces the authentication result or the
\* client replaces both, the client being built from the new result; a login
\* that fails, which ends the invocation, leaves both as they were.
ReplacedTogether(p) ==
    /\ (auth' # auth \/ transport' # transport) =>
          /\ auth' # auth
          /\ transport'.key = auth'.key
          /\ transport'.key # transport.key
    /\ (Top(p) = "login_wait" /\ stack'[p] = <<>>) =>
          /\ outcome'[p].error.name = "AuthenticationError"
          /\ auth' = auth
          /\ transport' = transport

\* C29: under every interleaving of two invocations on the shared client,
\* between any two steps the stored client carries the session key of the
\* stored authentication result; the two are replaced in one step, and a
\* re-authentication that fails replaces neither.
C29_ClientMatchesAuth ==
    /\ []ClientMatchesAuth
    /\ [][\A p \in Procs : ReplacedTogether(p)]_vars

\* C29 witness: of two invocations that found the session expired, one
\* logged in again and the login of the other was refused afterwards; the
\* client carries the second session.
C29_Witness ==
    \E p \in Procs : \E q \in Procs \ {p} :
        /\ Ended(p)
        /\ log[p][Len(log[p])] = FailEntry("login", "401")
        /\ RequestsAt(q, {"login"}) # {}
        /\ auth.key = 2
        /\ transport.key = 2
        /\ nextKey = 2

(***************************************************************************)
(* The arithmetic of Number: IEEE 754 doubles, rounded to nearest, ties to *)
(* even.  A natural number is a sequence of limbs, least first, without a  *)
(* leading zero limb; a double that is not negative is m * 2^e with a      *)
(* significand m of 53 bits, or zero.                                      *)
(***************************************************************************)
\* The bits of a number below 2^30.
BitLenSmall(n) == CHOOSE k \in 1..30 : 2^k > n /\ 2^(k - 1) <= n

Limb == 2^15
LimbBits == BitLenSmall(Limb - 1)
\* The 52 bits stored and the leading one.
SignificandBits == 52 + 1

RECURSIVE Trim(_)
Trim(a) == IF a # <<>> /\ a[Len(a)] = 0 THEN Trim(SubSeq(a, 1, Len(a) - 1)) ELSE a

RECURSIVE Limbs(_)
Limbs(n) == IF n = 0 THEN <<>> ELSE <<n % Limb>> \o Limbs(n \div Limb)

RECURSIVE AddCarry(_, _, _)
AddCarry(a, b, c) ==
    IF a = <<>> /\ b = <<>> THEN (IF c = 0 THEN <<>> ELSE <<c>>)
    ELSE LET x == (IF a = <<>> THEN 0 ELSE Head(a)) + (IF b = <<>> THEN 0 ELSE Head(b)) + c
         IN <<x % Limb>> \o AddCarry(IF a = <<>> THEN <<>> ELSE Tail(a),
                                     IF b = <<>> THEN <<>> ELSE Tail(b), x \div Limb)

NatAdd(a, b) == AddCarry(a, b, 0)

\* a - b - c for a >= b + c.
RECURSIVE SubBorrow(_, _, _)
SubBorrow(a, b, c) ==
    IF a = <<>> THEN <<>>
    ELSE LET x == Head(a) - (IF b = <<>> THEN 0 ELSE Head(b)) - c
         IN <<(x + Limb) % Limb>>
              \o SubBorrow(Tail(a), IF b = <<>> THEN <<>> ELSE Tail(b),
                           IF x < 0 THEN 1 ELSE 0)

NatSub(a, b) == Trim(SubBorrow(a, b, 0))

\* a * k + c for k < Limb.
RECURSIVE MulCarry(_, _, _)
MulCarry(a, k, c) ==
    IF a = <<>> THEN (IF c = 0 THEN <<>> ELSE <<c>>)
    ELSE LET x == Head(a) * k + c
         IN <<x % Limb>> \o MulCarry(Tail(a), k, x \div Limb)

NatMulSmall(a, k) == IF k = 0 THEN <<>> ELSE MulCarry(a, k, 0)

ShiftLimb(a) == IF a = <<>> THEN <<>> ELSE <<0>> \o a

RECURSIVE NatMul(_, _)
NatMul(a, b) ==
    IF a = <<>> \/ b = <<>> THEN <<>>
    ELSE NatAdd(NatMulSmall(a, Head(b)), ShiftLimb(NatMul(a, Tail(b))))

\* a * 2^s
ShiftLeft(a, s) ==
    IF a = <<>> THEN <<>>
    ELSE [i \in 1..(s \div LimbBits) |-> 0] \o NatMulSmall(a, 2^(s % LimbBits))

\* One step of the long division by k < Limb: high is the quotient and the
\* remainder of the limbs above.
DivStep(high, limb, k) ==
    [q |-> <<(high.r * Limb + limb) \div k>> \o high.q,
     r |-> (high.r * Limb + limb) % k]

RECURSIVE DivSmall(_, _)
DivSmall(a, k) ==
    IF a = <<>> THEN [q |-> <<>>, r |-> 0]
    ELSE DivStep(DivSmall(Tail(a), k), Head(a), k)

\* floor(a / 2^s)
ShiftRight(a, s) ==
    Trim(DivSmall(SubSeq(a, s \div LimbBits + 1, Len(a)), 2^(s % LimbBits)).q)

BitLen(a) == IF a = <<>> THEN 0 ELSE LimbBits * (Len(a) - 1) + BitLenSmall(a[Len(a)])

Top1(S) == CHOOSE i \in S : \A j \in S : j <= i

NatLess(a, b) ==
    IF Len(a) # Len(b) THEN Len(a) < Len(b)
    ELSE LET differ == {i \in 1..Len(a) : a[i] # b[i]}
         IN differ # {} /\ a[Top1(differ)] < b[Top1(differ)]

\* q = floor(a / 2^s), one more when the rest is above the half, or is the
\* half and q is odd.
RoundedUp(a, s, q) ==
    LET twice == ShiftLeft(NatSub(a, ShiftLeft(q, s)), 1)
        unit == ShiftLeft(<<1>>, s)
    IN IF NatLess(unit, twice) \/ (twice = unit /\ q[1] % 2 = 1)
       THEN NatAdd(q, <<1>>) ELSE q

RoundShift(a, s) == RoundedUp(a, s, ShiftRight(a, s))

DoubleZero == [m |-> <<>>, e |-> 0]

\* The significand after rounding: one bit too long when it was rounded up
\* to a power of two.
Renormalized(m, e) ==
    IF BitLen(m) > SignificandBits THEN [m |-> ShiftRight(m, 1), e |-> e + 1]
    ELSE [m |-> m, e |-> e]

Normalized(m, e, n) ==
    IF n <= SignificandBits
    THEN [m |-> ShiftLeft(m, SignificandBits - n), e |-> e - (SignificandBits - n)]
    ELSE Renormalized(RoundShift(m, n - SignificandBits), e + n - SignificandBits)

\* The double nearest to m * 2^e.
Double(m, e) == IF m = <<>> THEN DoubleZero ELSE Normalized(m, e, BitLen(m))

Aligned(x, e) == ShiftLeft(x.m, x.e - e)

\* x + y
DoubleAdd(x, y) ==
    IF x.m = <<>> THEN y
    ELSE IF y.m = <<>> THEN x
    ELSE Double(NatAdd(Aligned(x, Min(x.e, y.e)), Aligned(y, Min(x.e, y.e))),
                Min(x.e, y.e))

\* x - y, for x >= y
DoubleSub(x, y) ==
    IF y.m = <<>> THEN x
    ELSE Double(NatSub(Aligned(x, Min(x.e, y.e)), Aligned(y, Min(x.e, y.e))),
                Min(x.e, y.e))

\* x * y
DoubleMul(x, y) == Double(NatMul(x.m, y.m), x.e + y.e)

\* The quotient with a bit below it that tells whether a rest was left.
Sticky(d) == NatAdd(ShiftLeft(Trim(d.q), 1), IF d.r = 0 THEN <<>> ELSE <<1>>)

\* a / b for two naturals below Limb, b not 0: also the double a decimal
\* literal such as 0.15 (15 / 100) denotes.
Ratio(a, b) ==
    IF a = 0 THEN DoubleZero
    ELSE Double(Sticky(DivSmall(ShiftLeft(Limbs(a), 5 * LimbBits), b)), 0 - 5 * LimbBits - 1)

\* x < y
DoubleLess(x, y) ==
    IF y.m = <<>> THEN FALSE
    ELSE IF x.m = <<>> THEN TRUE
    ELSE x.e < y.e \/ (x.e = y.e /\ NatLess(x.m, y.m))

DoubleMin(x, y) == IF DoubleLess(y, x) THEN y ELSE x
DoubleOne == Ratio(1, 1)

(***************************************************************************)
(* trust/etl-middleware.ts in the arithmetic of Number                     *)
(***************************************************************************)

\* score += amount, when the condition holds.
Boost(score, cond, amount) == IF cond THEN DoubleAdd(score, amount) ELSE score
\* score -= amount, when the condition holds.
Penalty(score, cond, amount) == IF cond THEN DoubleSub(score, amount) ELSE score

\* Math.max(0.0, Math.min(1.0, score)), for a score that is not negative.
ClampDouble(score) == DoubleMin(DoubleOne, score)

computeAuthorityDouble(result) ==
    DoubleMin(DoubleOne,
              Boost(Boost(Ratio(8, 10), Succeeded(result), Ratio(1, 10)),
                    result.aggregations, Ratio(1, 10)))

computeFreshnessDouble(result, at) ==
    IF Len(result.events) = 0 THEN Ratio(5, 10)
    ELSE Ratio(Cardinality({i \in 1..Len(result.events) : isRecent(result.events[i], at)}),
               Len(result.events))

computeCompletenessDouble(result) ==
    IF Len(result.events) = 0 THEN DoubleZero
    ELSE Ratio(Cardinality({i \in 1..Len(result.events) : eventComplete(result.events[i])}),
               Len(result.events))

\* Math.max(...Object.values(fieldCounts))
MaxCount(counts) == Top1({counts[k] : k \in DOMAIN counts})

\* Object.keys(fieldCounts).length > 1 and maxVariance < 0.8
ScatteredDouble(counts, n) ==
    /\ Cardinality(DOMAIN counts) > 1
    /\ DoubleLess(Ratio(MaxCount(counts), n), Ratio(8, 10))

computeCoherenceDouble(result) ==
    IF Len(result.events) = 0 THEN Ratio(5, 10)
    ELSE ClampDouble(
           Penalty(Penalty(DoubleOne,
                           ScatteredDouble(fieldCounts(result), Len(result.events)),
                           Ratio(2, 10)),
                   result.truncated, Ratio(1, 10)))

computeIntegrityDouble(result) ==
    ClampDouble(
      Boost(Penalty(Penalty(DoubleOne, result.error # "", Ratio(5, 10)),
                    Len(result.events) > 0,
                    DoubleMul(Ratio(invalidCount(result), Events(result)), Ratio(3, 10))),
            /\ result.searchId # ""
            /\ result.executionTimeMs > 0
            /\ result.executionTimeMs < 100,
            Ratio(5, 100)))

computeTrackRecordDouble(result) ==
    DoubleMin(DoubleOne,
              Boost(Boost(Ratio(7, 10), Succeeded(result), Ratio(2, 10)),
                    result.executionTimeMs > 0 /\ result.executionTimeMs < 5000,
                    Ratio(1, 10)))

\* computeDimensions; computeCorroboration returns undefined.
computeDimensionsDouble(result, at) ==
    [authority |-> computeAuthorityDouble(result),
     freshness |-> computeFreshnessDouble(result, at),
     trackRecord |-> computeTrackRecordDouble(result),
     completeness |-> computeCompletenessDouble(result),
     coherence |-> computeCoherenceDouble(result),
     integrity |-> computeIntegrityDouble(result)]

\* The weighted sum, added from left to right.
compositeScoreDouble(d) ==
    DoubleAdd(
      DoubleAdd(
        DoubleAdd(
          DoubleAdd(
            DoubleAdd(DoubleMul(d.authority, Ratio(2, 10)),
                      DoubleMul(d.freshness, Ratio(2, 10))),
            DoubleMul(d.completeness, Ratio(2, 10))),
          DoubleMul(d.coherence, Ratio(15, 100))),
        DoubleMul(d.integrity, Ratio(15, 100))),
      DoubleMul(d.trackRecord, Ratio(1, 10)))

\* z.number().min(0).max(1), for a number that is not negative.
InUnitInterval(x) == ~DoubleLess(DoubleOne, x)

DimensionNames ==
    {"authority", "freshness", "trackRecord", "completeness", "coherence", "integrity"}

\* TrustMetadataSchema.parse: a score outside [0, 1] is refused with a
\* ZodError, which computeTrust lets through to its caller.
ParsedTrust(d, composite) ==
    [dimensions |-> d, compositeScore |-> composite,
     thrown |-> IF /\ \A k \in DimensionNames : InUnitInterval(d[k])
                   /\ InUnitInterval(composite)
                THEN "" ELSE "ZodError"]

Composed(d) == ParsedTrust(d, compositeScoreDouble(d))

computeTrustDouble(result, at) == Composed(computeDimensionsDouble(result, at))

\* Results of three events, for the thirds among the ratios.
TripleResults ==
    {[runs |-> <<[n |-> k, event |-> e], [n |-> 3 - k, event |-> f]>>,
      truncated |-> t, searchId |-> "sid", executionTimeMs |-> 40,
      error |-> "", aggregations |-> agg] :
        k \in 1..2, e \in SmallEvents, f \in SmallEvents, t \in BOOLEAN, agg \in BOOLEAN}

\* The scorer called once on one result, the clock at hour 0.
InitDouble ==
    /\ etl \in {EtlIdle([pc |-> "number", score |-> 0, thresholds |-> DefaultThresholds,
                         results |-> {d}]) : d \in SmallResults \cup TripleResults}
    /\ scan = ScanOff
    /\ sink = SinkOff
    /\ settings = Settings("token", 0, 1000)
    /\ workload = [requests |-> {}, concurrency |-> 0, calls |-> 0, slowNetwork |-> FALSE]
    /\ Started("token")
    /\ Quiet

DoComputeTrustDouble ==
    /\ etl.pc = "number"
    /\ \E d \in etl.results :
          etl' = [etl EXCEPT
                    !.pc = "scored",
                    !.reports = <<[result |-> d,
                                   trust |-> computeTrustDouble(SplunkSearchResult(d),
                                                                etl.clock)]>>]
    /\ UNCHANGED <<serverVars, scan, process, sink>>

NextDouble == DoComputeTrustDouble

SpecDouble == InitDouble /\ [][NextDouble]_vars

\* C24: for every result, each of the six dimension scores and the composite
\* score computeTrust arrives at lie in [0, 1], so that the report is
\* returned.
C24_ScoresInUnitInterval ==
    etl.pc = "scored" =>
        \A i \in 1..Len(etl.reports) :
            /\ \A k \in DimensionNames : InUnitInterval(etl.reports[i].trust.dimensions[k])
            /\ InUnitInterval(etl.reports[i].trust.compositeScore)
            /\ etl.reports[i].trust.thrown = ""

====
